---- MODULE Spec2Model ----
(***************************************************************************)
(* Model of the self-evolution monitor of src/Util/Self-evolution.py:      *)
(* the sentinel-file lock protocol, the mode policy, the per-file conflict *)
(* check and resolver, the monitor cycle and the todo ledger.              *)
(*                                                                         *)
(* Two callers use the lock directory: "agent" is the SelfEvolutionMonitor *)
(* whose monitor cycle is modelled, "other" is an independent user of the  *)
(* same lock directory (a second monitor instance or thread).              *)
(*                                                                         *)
(* Time.  time.time() is read in whole seconds: `elapsed` is the number of *)
(* whole seconds since the start of an acquire call, and one               *)
(* time.sleep(0.1) moves that reading by 0 or by 1.  A sentinel's age is   *)
(* kept as the outcome of the only test the code makes on it,              *)
(* time.time() - st_mtime > 300 (field `stale`).                           *)
(***************************************************************************)
EXTENDS Naturals, Sequences, FiniteSets, TLC

VARIABLES
    sentinel,   \* lock_dir/<md5(path)>.lock for each path: NoFile or a file
    held,       \* per caller and path: "none", "live" or "expired"
    pc,         \* per caller: position in its code
    cont,       \* per caller: where acquire_file_lock returns to
    lockPath,   \* per caller: file_path argument of the running acquire call
    timeout,    \* per caller: timeout argument of the running acquire call
    elapsed,    \* per caller: time.time() - start_time, in whole seconds
    result,     \* per caller: value returned by the last acquire_file_lock
    solo,       \* per caller: the running call found a stale sentinel and
                \* no other caller has used the lock of that path since
    blocked,    \* per caller: the sentinel of the running call's path has
                \* been present and younger than the TTL since the call began
    config,     \* PG_ProjectMod as RulesLoader loaded it at construction
    userActive, \* .user_activity was modified less than 300 s ago
    content,    \* per project file: its content
    ruleContent,            \* content of the monitored rule file
    rules_hash_cache,       \* self.rules_hash_cache
    project_files_hash_cache, \* self.project_files_hash_cache
    files_to_process,       \* run_monitor_cycle: the candidate set
    gate_user_active,       \* should_execute_evolution: what is_user_active()
                            \* returned to the gate of the running cycle
    pending,    \* the files the running loop has not reached yet
    results,    \* compliance_results of check_project_files_compliance
    updated,    \* the files update_file_compliance returned True for
    existing_files,         \* add_files_to_todo: paths read from the ledger
    files_to_add,           \* add_files_to_todo: lines to append
    ledger,     \* rules/todo_Self-evolution_lists.txt, a sequence of lines
    cycles,     \* number of monitor cycles started
    envEvents,  \* number of events of the monitor's environment so far
    unreadable, \* the files (project files, "rule") that calculate_file_hash
                \* cannot read now: missing or not readable
    modeSource, \* PG_ProjectMod as rules/project_vars.txt holds it now
    audit_log,  \* the records the running cycle has appended to
                \* Logs/path_conflicts.log
    running,    \* self.running
    loop,       \* start_monitoring: "direct" (not used, run_monitor_cycle is
                \* called directly), "new", "cycle", "test", "sleep", "exited"
    tpc,        \* TodoListProcessor.run: "idle", "read" (read_todo_file has
                \* returned True), "processed", "done"
    read_lines, \* read_todo_file: the lines read from the ledger's file
    comment_lines,          \* self.comment_lines
    todo_entries,           \* self.todo_entries
    readonly,   \* the project files that can be read but not written
    exit_code,  \* the exit status of the --once process in a sequence,
                \* empty while the process runs
    status_files,   \* GlobalRulesManager: which of rules.lock, rules.online
                    \* and rules.offline exist in rules_dir
    rules_file,     \* project_rules.md: "none", or where its content is from
    rules_backup,   \* project_rules.md.backup, likewise
    grm_call,       \* the last call of the manager and what it returned
    cfg_file,   \* the state of the configuration file load_config reads
    lc_class,   \* the class whose load_config is called
    lc_depth,   \* the number of frames of load_config on the stack
    lc_result   \* what the outermost load_config call ended with

lockVars == <<sentinel, held, pc, cont, lockPath, timeout, elapsed, result, solo, blocked>>

envVars == <<config, userActive, content, ruleContent>>

cycleVars == <<rules_hash_cache, project_files_hash_cache, files_to_process, gate_user_active,
               pending,
               results, updated, existing_files, files_to_add, ledger, cycles>>

monVars == <<envVars, cycleVars>>

extVars == <<unreadable, modeSource, audit_log, running, loop>>

todoVars == <<tpc, read_lines, comment_lines, todo_entries>>

grmVars == <<status_files, rules_file, rules_backup, grm_call>>

loadVars == <<cfg_file, lc_class, lc_depth, lc_result>>

auxVars == <<todoVars, readonly, exit_code, grmVars, loadVars>>

vars == <<lockVars, monVars, envEvents, extVars, auxVars>>

----------------------------------------------------------------------------
(* Bounds and program constants *)

Callers == {"agent", "other"}

\* the project files; the name of the second holds the character '|', which
\* a file name may hold on a POSIX file system
Paths == {"a.py", "b|c.py"}

\* timeout: int = 5 of acquire_file_lock
DefaultTimeout == 5

\* the timeouts an independent caller passes
Timeouts == {0, DefaultTimeout}

NoFile == [exists |-> FALSE]

\* a sentinel file: who created it, whether the holder information has been
\* written to it yet, and whether its mtime is more than 300 s in the past
SentinelFile(c, w, s) == [exists |-> TRUE, owner |-> c, written |-> w, stale |-> s]

\* the paths the independent callers lock
LockPaths == {"a.py"}

\* the number of monitor cycles a run starts
MaxCycles == 3

\* the number of events of the environment in a run of the monitor: touches
\* of the activity file, edits, calls of the independent caller, expiries
MaxEnvEvents == 2

\* the number of events around a started monitor in a run of SpecMon
MaxMonEvents == 2

\* the project files whose permissions change in SpecMon
HidePaths == {"a.py"}

----------------------------------------------------------------------------
(* Lock manager: acquire_file_lock, release_file_lock, is_file_locked *)

InAcquire(c) == pc[c] \in {"acq_try", "acq_write", "acq_check", "acq_unlink", "acq_sleep"}

\* caller o uses the lock of path p: no call of another caller on p is alone
Contended(o, p) ==
    [c \in Callers |-> IF c # o /\ lockPath[c] = p THEN FALSE ELSE solo[c]]

\* the sentinel of path p is removed or reaches the TTL: no running call on
\* p has seen it present and young all along
Unblocked(p) ==
    [c \in Callers |-> IF lockPath[c] = p THEN FALSE ELSE blocked[c]]

\* entry of acquire_file_lock(file_path = p, timeout = t), returning to k
EnterAcquire(c, p, t, k) ==
    /\ pc' = [pc EXCEPT ![c] = "acq_try"]
    /\ cont' = [cont EXCEPT ![c] = k]
    /\ lockPath' = [lockPath EXCEPT ![c] = p]
    /\ timeout' = [timeout EXCEPT ![c] = t]
    /\ elapsed' = [elapsed EXCEPT ![c] = 0]
    /\ solo' = [Contended(c, p) EXCEPT ![c] =
                    /\ sentinel[p].exists /\ sentinel[p].stale
                    /\ ~\E o \in Callers : o # c /\ InAcquire(o) /\ lockPath[o] = p]
    /\ blocked' = [blocked EXCEPT ![c] = sentinel[p].exists /\ ~sentinel[p].stale]

\* a loop that never gives up
LoopConditionAlways(c) == TRUE

\* `while time.time() - start_time < timeout`
LoopCondition(c) == elapsed[c] < timeout[c]

\* the loop ends: return False
AcqTimeout(c) ==
    /\ pc[c] = "acq_try"
    /\ ~LoopCondition(c)
    /\ pc' = [pc EXCEPT ![c] = cont[c]]
    /\ result' = [result EXCEPT ![c] = FALSE]
    /\ elapsed' = [elapsed EXCEPT ![c] = 0]
    /\ UNCHANGED <<sentinel, held, cont, lockPath, timeout, solo, blocked>>
    /\ UNCHANGED <<monVars, envEvents, extVars>>
    /\ UNCHANGED auxVars

\* open(lock_file, 'x') creates the sentinel: it exists, still empty
AcqCreate(c) ==
    /\ pc[c] = "acq_try"
    /\ LoopCondition(c)
    /\ ~sentinel[lockPath[c]].exists
    /\ sentinel' = [sentinel EXCEPT ![lockPath[c]] = SentinelFile(c, FALSE, FALSE)]
    /\ pc' = [pc EXCEPT ![c] = "acq_write"]
    /\ solo' = Contended(c, lockPath[c])
    /\ UNCHANGED blocked
    /\ UNCHANGED <<held, cont, lockPath, timeout, elapsed, result>>
    /\ UNCHANGED <<monVars, envEvents, extVars>>
    /\ UNCHANGED auxVars

\* open(lock_file, 'x') raises FileExistsError
AcqExists(c) ==
    /\ pc[c] = "acq_try"
    /\ LoopCondition(c)
    /\ sentinel[lockPath[c]].exists
    /\ pc' = [pc EXCEPT ![c] = "acq_check"]
    /\ UNCHANGED <<sentinel, held, cont, lockPath, timeout, elapsed, result, solo, blocked>>
    /\ UNCHANGED <<monVars, envEvents, extVars>>
    /\ UNCHANGED auxVars

\* the with block ends: the holder information reaches the file the caller
\* opened (if that file is still the one in the directory); return True
AcqWrite(c) ==
    /\ pc[c] = "acq_write"
    /\ sentinel' = [sentinel EXCEPT ![lockPath[c]] =
            IF @.exists /\ @.owner = c /\ ~@.written
            THEN SentinelFile(c, TRUE, @.stale) ELSE @]
    /\ held' = [held EXCEPT ![c][lockPath[c]] = "live"]
    /\ pc' = [pc EXCEPT ![c] = cont[c]]
    /\ result' = [result EXCEPT ![c] = TRUE]
    /\ elapsed' = [elapsed EXCEPT ![c] = 0]
    /\ UNCHANGED <<cont, lockPath, timeout, solo, blocked>>
    /\ UNCHANGED <<monVars, envEvents, extVars>>
    /\ UNCHANGED auxVars

\* a stale test that never finds a sentinel too old
SentinelExpiredNever(s) == FALSE

\* `time.time() - lock_time > 300` on the sentinel found
SentinelExpired(s) == s.stale

\* lock_file.exists() and lock_file.stat().st_mtime: a sentinel that is gone
\* (exists() False, or stat raising into the except clause) and a sentinel
\* younger than 300 s both lead to the sleep; an older one to the unlink
AcqCheck(c) ==
    /\ pc[c] = "acq_check"
    /\ pc' = [pc EXCEPT ![c] =
            IF sentinel[lockPath[c]].exists /\ SentinelExpired(sentinel[lockPath[c]])
            THEN "acq_unlink" ELSE "acq_sleep"]
    /\ UNCHANGED <<sentinel, held, cont, lockPath, timeout, elapsed, result, solo, blocked>>
    /\ UNCHANGED <<monVars, envEvents, extVars>>
    /\ UNCHANGED auxVars

\* lock_file.unlink(): removes whatever file has the name now; a missing
\* file raises into the except clause
AcqUnlink(c) ==
    /\ pc[c] = "acq_unlink"
    /\ sentinel' = [sentinel EXCEPT ![lockPath[c]] = NoFile]
    /\ pc' = [pc EXCEPT ![c] = "acq_sleep"]
    /\ blocked' = Unblocked(lockPath[c])
    /\ UNCHANGED <<held, cont, lockPath, timeout, elapsed, result, solo>>
    /\ UNCHANGED <<monVars, envEvents, extVars>>
    /\ UNCHANGED auxVars

\* the clock, read in whole seconds by every running call, moves by d
ClockAfter(d) ==
    [k \in Callers |->
        IF InAcquire(k) /\ elapsed[k] + d <= timeout[k] THEN elapsed[k] + d ELSE elapsed[k]]

\* time.sleep(0.1), the reading of the clock in whole seconds unchanged
AcqSleep(c) ==
    /\ pc[c] = "acq_sleep"
    /\ pc' = [pc EXCEPT ![c] = "acq_try"]
    /\ elapsed' = ClockAfter(0)
    /\ UNCHANGED <<sentinel, held, cont, lockPath, timeout, result, solo, blocked>>
    /\ UNCHANGED <<monVars, envEvents, extVars>>
    /\ UNCHANGED auxVars

\* time.sleep(0.1), during which the next whole second begins
AcqSleepTick(c) ==
    /\ pc[c] = "acq_sleep"
    /\ pc' = [pc EXCEPT ![c] = "acq_try"]
    /\ elapsed' = ClockAfter(1)
    /\ UNCHANGED <<sentinel, held, cont, lockPath, timeout, result, solo, blocked>>
    /\ UNCHANGED <<monVars, envEvents, extVars>>
    /\ UNCHANGED auxVars

\* release_file_lock: `if lock_file.exists(): lock_file.unlink()`
ReleasedSentinel(s) == NoFile

----------------------------------------------------------------------------
(* The passing of time *)

\* a sentinel's mtime falls more than 300 s into the past; the acquire of
\* its creator returns right after the creation (not 300 s later), so the
\* creator's hold reaches the TTL with the sentinel it created
Expire(p) ==
    /\ sentinel[p].exists
    /\ ~sentinel[p].stale
    /\ ~(pc[sentinel[p].owner] = "acq_write" /\ lockPath[sentinel[p].owner] = p)
    /\ sentinel' = [sentinel EXCEPT ![p].stale = TRUE]
    /\ held' = [held EXCEPT ![sentinel[p].owner][p] = IF @ = "live" THEN "expired" ELSE @]
    /\ blocked' = Unblocked(p)
    /\ UNCHANGED <<pc, cont, lockPath, timeout, elapsed, result, solo>>

\* 300 s have passed since c's acquire returned True
HoldExpire(c, p) ==
    /\ held[c][p] = "live"
    /\ ~(sentinel[p].exists /\ sentinel[p].owner = c /\ ~sentinel[p].stale)
    /\ held' = [held EXCEPT ![c][p] = "expired"]
    /\ UNCHANGED <<sentinel, pc, cont, lockPath, timeout, elapsed, result, solo, blocked>>

----------------------------------------------------------------------------
(* An independent caller of the lock manager *)

CallAcquire(c, p, t) ==
    /\ pc[c] = "idle"
    /\ EnterAcquire(c, p, t, "returned")
    /\ UNCHANGED <<sentinel, held, result>>

CallReturned(c) ==
    /\ pc[c] = "returned"
    /\ pc' = [pc EXCEPT ![c] = "idle"]
    /\ result' = [result EXCEPT ![c] = FALSE]
    /\ solo' = [solo EXCEPT ![c] = FALSE]
    /\ blocked' = [blocked EXCEPT ![c] = FALSE]
    /\ timeout' = [timeout EXCEPT ![c] = DefaultTimeout]
    /\ UNCHANGED <<sentinel, held, cont, lockPath, elapsed>>
    /\ UNCHANGED <<monVars, envEvents, extVars>>
    /\ UNCHANGED auxVars

CallRelease(c, p) ==
    /\ pc[c] = "idle"
    /\ held[c][p] # "none"
    /\ sentinel' = [sentinel EXCEPT ![p] = ReleasedSentinel(@)]
    /\ held' = [held EXCEPT ![c][p] = "none"]
    /\ solo' = Contended(c, p)
    /\ blocked' = Unblocked(p)
    /\ UNCHANGED <<pc, cont, lockPath, timeout, elapsed, result>>

----------------------------------------------------------------------------
(* Mode source, activity tracker and mode policy *)

\* what get_project_mod_config yields from the loaded variables: one of the
\* two known modes, another mode name, or "none" (PG_ProjectMod missing or
\* not of the form mode,rule_var, or the rule variable missing: None)
Configs == {"devP", "proD", "other", "none"}

\* a mode source whose default is proD
get_project_mode_proD(cfg) == IF cfg = "none" THEN "proD" ELSE cfg

\* get_project_mode: the mode of the configuration, 'devP' when there is none
get_project_mode(cfg) == IF cfg = "none" THEN "devP" ELSE cfg

\* a gate that ignores the mode
should_execute_evolution_inactive(mode, user_active) == ~user_active

\* should_execute_evolution
should_execute_evolution(mode, user_active) ==
    IF mode = "devP" THEN TRUE ELSE ~user_active

\* is_file_locked: (exists, content of the sentinel, stripped), "" if empty
is_file_locked(s) ==
    IF ~s.exists THEN [locked |-> FALSE, info |-> ""]
    ELSE [locked |-> TRUE, info |-> IF s.written THEN "holder" ELSE ""]

\* `if is_locked and lock_info`
LockedBranch(l) == l.locked /\ l.info # ""

\* check_path_conflicts: (has_conflict, reason)
check_path_conflicts(mode, s, user_active) ==
    IF LockedBranch(is_file_locked(s))
    THEN [conflict |-> TRUE, reason |-> "locked"]
    ELSE IF mode = "devP"
    THEN [conflict |-> FALSE, reason |-> IF user_active THEN "devP priority" ELSE "no activity"]
    ELSE IF mode = "proD"
    THEN IF user_active THEN [conflict |-> TRUE, reason |-> "proD user activity"]
         ELSE [conflict |-> FALSE, reason |-> "no activity"]
    ELSE IF user_active THEN [conflict |-> TRUE, reason |-> "unknown mode user activity"]
         ELSE [conflict |-> FALSE, reason |-> "no conflict"]

\* a resolver that tries to acquire the lock in every mode
ResolverAcquiresAlways(mode) == TRUE

\* resolve_path_conflict: does the resolver try to acquire the lock
ResolverAcquires(mode) == mode = "devP"

\* resolve_path_conflict: the resolution string returned
resolve_path_conflict(mode, acquired) ==
    IF ResolverAcquires(mode)
    THEN IF acquired THEN "devP forced with lock" ELSE "no lock, skipped"
    ELSE "proD skipped"

\* log_conflict: the record appended to Logs/path_conflicts.log
ConflictRecord(p, mode, reason, resolution) ==
    [file |-> p, mode |-> mode, reason |-> reason, resolution |-> resolution]

\* a resolver that writes no record
LoggedAtEntryNothing(log, p, mode, reason) == log

\* resolve_path_conflict up to its call of acquire_file_lock: the record of
\* the conflict, and in the modes that do not acquire the resolution too
LoggedAtEntry(log, p, mode, reason) ==
    IF ResolverAcquires(mode)
    THEN Append(log, ConflictRecord(p, mode, reason, "pending"))
    ELSE log \o <<ConflictRecord(p, mode, reason, "pending"),
                  ConflictRecord(p, mode, reason, resolve_path_conflict(mode, FALSE))>>

\* resolve_path_conflict after acquire_file_lock returned
LoggedAtReturn(log, p, mode, reason, acquired) ==
    Append(log, ConflictRecord(p, mode, reason, resolve_path_conflict(mode, acquired)))

\* `"跳过处理" in resolution`
IsSkip(resolution) == resolution \in {"no lock, skipped", "proD skipped"}

----------------------------------------------------------------------------
(* Files, fingerprints and the rule engine *)

Contents == {"ok", "bad"}

RuleContents == {"r1", "r2"}

\* self.todo_file_path: the ledger's file, in the project tree and with a
\* suffix scan_project_files accepts
todo_file_path == "rules/todo.txt"

\* the files a directory scan can find
Files == Paths \cup {todo_file_path}

\* the name the rule file has in the set of unreadable files
RuleFile == "rule"

\* a path that is not in a hash cache
NoHash == "nohash"

\* None, as calculate_file_hash returns it and as a cache stores it
NoneHash == "None"

\* calculate_file_hash: the digest stands for the content it is taken of
calculate_file_hash(c) == c

\* an entry of compliance_results: (is_compliant, issues, update_info), as
\* the verdict "compliant", "fixable" (not compliant, with issues and
\* update_info) or "skipped" (not compliant, the conflict reason as issue,
\* no update_info)
NoResult == [verdict |-> "none", issue |-> ""]

\* check_file_compliance on the content read from a .py file
check_file_compliance(c) ==
    IF c = "ok" THEN [verdict |-> "compliant", issue |-> ""]
    ELSE [verdict |-> "fixable", issue |-> "missing header"]

\* `results[str(file_path)] = (False, [conflict_reason], {})`
SkippedResult(reason) == [verdict |-> "skipped", issue |-> reason]

\* update_file_compliance: the content after the header lines are inserted
FixedContent(c) == "ok"

Rank(p) == IF p = "a.py" THEN 1 ELSE IF p = todo_file_path THEN 3 ELSE 2

\* the next file of a loop over the files S, in the order of the list
NextFile(S) == CHOOSE p \in S : \A q \in S : Rank(p) <= Rank(q)

----------------------------------------------------------------------------
(* Todo ledger: a line of the file is its text cut at every '|', a
   sequence of pieces in which each '|' is a piece of its own *)

\* str(file_path)
PathString(p) ==
    IF p = "a.py" THEN <<"a.py">>
    ELSE IF p = todo_file_path THEN <<todo_file_path>>
    ELSE <<"b", "|", "c.py">>

\* "# 待处理文件路径|优先级|添加时间"
HeaderLine == <<"# path", "|", "priority", "|", "time">>

\* datetime.now().isoformat(), the cycle standing for the time
IsoTime(n) == ToString(n)

\* f"{file_path}|{priority}|{datetime.now().isoformat()}"
DataLine(p, priority, t) == PathString(p) \o <<"|", priority, "|", t>>

\* line.startswith('#')
IsComment(line) == line[1] = "# path"

\* line.split('|', 1)[0].strip(): the text before the first '|'
FirstField(line) ==
    LET bars == {i \in 1..Len(line) : line[i] = "|"}
    IN  IF bars = {} THEN line
        ELSE SubSeq(line, 1, (CHOOSE i \in bars : \A k \in bars : i <= k) - 1)

\* the paths add_files_to_todo reads from the lines that are not comments
LedgerPaths(lines) ==
    {FirstField(lines[i]) : i \in {j \in 1..Len(lines) : ~IsComment(lines[j])}}

\* `str(file_path) in existing_files`
InLedger(p, existing) == PathString(p) \in existing

\* priority = "HIGH" if project_mode == 'devP' else "LOW"
Priority(mode) == IF mode = "devP" THEN "HIGH" ELSE "LOW"

\* the write at the end of add_files_to_todo
AppendToLedger(lines, items) ==
    IF items # <<>> THEN lines \o <<HeaderLine>> \o items ELSE lines

----------------------------------------------------------------------------
(* The environment of the monitor *)

\* the user touches .user_activity
UserTouch ==
    /\ ~userActive
    /\ userActive' = TRUE
    /\ UNCHANGED <<config, content, ruleContent, cycleVars, lockVars, extVars>>

\* 300 s pass without a touch
UserIdle ==
    /\ userActive
    /\ userActive' = FALSE
    /\ UNCHANGED <<config, content, ruleContent, cycleVars, lockVars, extVars>>

\* a project file is edited outside the monitor
HumanEdit(p) ==
    /\ \E c \in Contents \ {content[p]} : content' = [content EXCEPT ![p] = c]
    /\ UNCHANGED <<config, userActive, ruleContent, cycleVars, lockVars, extVars>>

\* the rule file is edited
RuleEdit ==
    /\ \E r \in RuleContents \ {ruleContent} : ruleContent' = r
    /\ UNCHANGED <<config, userActive, content, cycleVars, lockVars, extVars>>

----------------------------------------------------------------------------
(* run_monitor_cycle *)

Mode == get_project_mode(config)

\* the text of file f; the ledger's file holds the ledger's lines
FileContent(f) == IF f = todo_file_path THEN ToString(ledger) ELSE content[f]

\* calculate_file_hash(f) now: None for a file that cannot be read
FileHash(f) ==
    IF f \in unreadable THEN NoneHash ELSE calculate_file_hash(FileContent(f))

\* calculate_file_hash of the rule file now
RuleHash ==
    IF RuleFile \in unreadable THEN NoneHash ELSE calculate_file_hash(ruleContent)

\* the entry of a hash cache after a scan has met a file whose entry was
\* `cached` and whose hash is `current`: a file not in the cache gets an
\* entry only `if current_hash`, a file in it gets the current hash
CacheAfterScan(cached, current) ==
    IF cached = NoHash
    THEN IF current # NoneHash THEN current ELSE NoHash
    ELSE current

\* a scan that reports the files it first meets
ReportedChangedNew(cached, current) == current # cached

\* `file_path in cache` and `current_hash != cache[file_path]`
ReportedChanged(cached, current) == cached # NoHash /\ current # cached

\* check_rule_files_changes: the changed rule files (one rule file)
ChangedRuleFiles ==
    IF ReportedChanged(rules_hash_cache, RuleHash) THEN {RuleFile} ELSE {}

\* the lock manager's sentinel of file f; nobody locks the ledger's file
SentinelOf(f) == IF f \in Paths THEN sentinel[f] ELSE NoFile

\* scan_project_files: the walk finds the ledger's file once it is written
scan_project_files ==
    Paths \cup (IF ledger # <<>> THEN {todo_file_path} ELSE {})

\* check_project_files_changes: the changed project files
ChangedProjectFiles ==
    {f \in scan_project_files :
        /\ ReportedChanged(project_files_hash_cache[f], FileHash(f))
        /\ f # todo_file_path}

\* check_file_compliance(f): a file that cannot be read is not compliant
\* and has no update_info; a .txt file has no header rule
FileVerdict(f) ==
    IF f \in unreadable THEN [verdict |-> "error", issue |-> "check failed"]
    ELSE IF f = todo_file_path THEN [verdict |-> "compliant", issue |-> ""]
    ELSE check_file_compliance(content[f])

\* a candidate set that ignores the rule-file scan
FilesToProcessChangedOnly == ChangedProjectFiles

\* the candidate set of the cycle
FilesToProcess ==
    IF ChangedRuleFiles # {} THEN scan_project_files ELSE ChangedProjectFiles

EndCycle ==
    /\ pc' = [pc EXCEPT !["agent"] = "idle"]
    /\ files_to_process' = {}
    /\ gate_user_active' = FALSE
    /\ pending' = {}
    /\ results' = [p \in Files |-> NoResult]
    /\ updated' = {}
    /\ existing_files' = {}
    /\ files_to_add' = <<>>
    /\ audit_log' = <<>>
    /\ loop' = IF loop = "direct" THEN "direct" ELSE "test"

\* both scans, the candidate set and the gate
CycleStart ==
    /\ pc["agent"] = "idle"
    /\ loop \in {"direct", "cycle"}
    /\ cycles < MaxCycles
    /\ cycles' = cycles + 1
    /\ rules_hash_cache' = CacheAfterScan(rules_hash_cache, RuleHash)
    /\ project_files_hash_cache' =
           [f \in Files |->
               IF f \in scan_project_files
               THEN CacheAfterScan(project_files_hash_cache[f], FileHash(f))
               ELSE project_files_hash_cache[f]]
    /\ IF FilesToProcess # {} /\ should_execute_evolution(Mode, userActive)
       THEN /\ files_to_process' = FilesToProcess
            /\ gate_user_active' = userActive
            /\ pending' = FilesToProcess
            /\ pc' = [pc EXCEPT !["agent"] = "check"]
            /\ UNCHANGED <<results, updated, existing_files, files_to_add, audit_log, loop>>
       ELSE EndCycle
    /\ UNCHANGED <<ledger, envVars, sentinel, held, cont, lockPath, timeout, elapsed, result, solo, blocked>>
    /\ UNCHANGED <<envEvents, unreadable, modeSource, running>>
    /\ UNCHANGED auxVars

\* check_project_files_compliance, one file: the conflict check, then the
\* resolver (which calls acquire_file_lock) or the compliance check
CheckFile ==
    /\ pc["agent"] = "check"
    /\ pending # {}
    /\ LET p == NextFile(pending)
           c == check_path_conflicts(Mode, SentinelOf(p), userActive)
       IN  /\ audit_log' = IF c.conflict
                            THEN LoggedAtEntry(audit_log, p, Mode, c.reason)
                            ELSE audit_log
           /\ IF c.conflict /\ ResolverAcquires(Mode)
              THEN /\ EnterAcquire("agent", p, DefaultTimeout, "check_acq")
                   /\ UNCHANGED <<pending, results>>
              ELSE /\ results' = [results EXCEPT ![p] =
                           IF c.conflict /\ IsSkip(resolve_path_conflict(Mode, FALSE))
                           THEN SkippedResult(c.reason) ELSE FileVerdict(p)]
                   /\ pending' = pending \ {p}
                   /\ UNCHANGED <<pc, cont, lockPath, timeout, elapsed, solo, blocked>>
    /\ UNCHANGED <<sentinel, held, result, envVars, rules_hash_cache, project_files_hash_cache,
                   files_to_process, updated, existing_files, files_to_add, ledger, cycles>>
    /\ UNCHANGED <<gate_user_active, envEvents, unreadable, modeSource, running, loop>>
    /\ UNCHANGED auxVars

\* the resolver's acquire_file_lock has returned
CheckAcquired ==
    /\ pc["agent"] = "check_acq"
    /\ LET p == lockPath["agent"]
       IN  /\ audit_log' = LoggedAtReturn(audit_log, p, Mode, "locked", result["agent"])
           /\ results' = [results EXCEPT ![p] =
                    IF IsSkip(resolve_path_conflict(Mode, result["agent"]))
                    THEN SkippedResult("locked") ELSE FileVerdict(p)]
           /\ pending' = pending \ {p}
    /\ pc' = [pc EXCEPT !["agent"] = "check"]
    /\ result' = [result EXCEPT !["agent"] = FALSE]
    /\ solo' = [solo EXCEPT !["agent"] = FALSE]
    /\ blocked' = [blocked EXCEPT !["agent"] = FALSE]
    /\ UNCHANGED <<sentinel, held, cont, lockPath, timeout, elapsed, envVars, rules_hash_cache,
                   project_files_hash_cache, files_to_process, updated, existing_files,
                   files_to_add, ledger, cycles>>
    /\ UNCHANGED <<gate_user_active, envEvents, unreadable, modeSource, running, loop>>
    /\ UNCHANGED auxVars

\* process_files_for_compliance: the files to update are those found not
\* compliant with issues and update_info
FilesToUpdate == {p \in files_to_process : results[p].verdict = "fixable"}

CheckDone ==
    /\ pc["agent"] = "check"
    /\ pending = {}
    /\ pc' = [pc EXCEPT !["agent"] = "fix"]
    /\ pending' = FilesToUpdate
    /\ UNCHANGED <<sentinel, held, cont, lockPath, timeout, elapsed, result, solo, blocked, envVars,
                   rules_hash_cache, project_files_hash_cache, files_to_process, results,
                   updated, existing_files, files_to_add, ledger, cycles>>
    /\ UNCHANGED <<gate_user_active, envEvents, extVars>>
    /\ UNCHANGED auxVars

\* update_file_compliance: acquire_file_lock(file_path)
FixFile ==
    /\ pc["agent"] = "fix"
    /\ pending # {}
    /\ EnterAcquire("agent", NextFile(pending), DefaultTimeout, "fix_acq")
    /\ UNCHANGED <<sentinel, held, result, monVars>>
    /\ UNCHANGED <<envEvents, extVars>>
    /\ UNCHANGED auxVars

\* an update that goes on whatever acquire_file_lock returned
WritesRegardless(acquired) == TRUE

\* `if not self.acquire_file_lock(file_path): return False`
WritesAfterAcquire(acquired) == acquired

FixAcquired ==
    /\ pc["agent"] = "fix_acq"
    /\ IF WritesAfterAcquire(result["agent"])
       THEN /\ pc' = [pc EXCEPT !["agent"] = "fix_write"]
            /\ UNCHANGED pending
       ELSE /\ pc' = [pc EXCEPT !["agent"] = "fix"]
            /\ pending' = pending \ {lockPath["agent"]}
    /\ result' = [result EXCEPT !["agent"] = FALSE]
    /\ solo' = [solo EXCEPT !["agent"] = FALSE]
    /\ blocked' = [blocked EXCEPT !["agent"] = FALSE]
    /\ UNCHANGED <<sentinel, held, cont, lockPath, timeout, elapsed, envVars, rules_hash_cache,
                   project_files_hash_cache, files_to_process, results, updated,
                   existing_files, files_to_add, ledger, cycles>>
    /\ UNCHANGED <<gate_user_active, envEvents, extVars>>
    /\ UNCHANGED auxVars

\* update_file_compliance: the file is read, changed and written back; a
\* file that cannot be read, or cannot be opened for writing, raises: the
\* finally block releases the lock and the exception goes on to the
\* except clause of the outer try
FixWrite ==
    /\ pc["agent"] = "fix_write"
    /\ LET p == lockPath["agent"]
       IN  IF p \in unreadable \cup readonly
           THEN /\ sentinel' = [sentinel EXCEPT ![p] = ReleasedSentinel(@)]
                /\ held' = [held EXCEPT !["agent"][p] = "none"]
                /\ solo' = Contended("agent", p)
                /\ blocked' = Unblocked(p)
                /\ pc' = [pc EXCEPT !["agent"] = "fix_except"]
                /\ UNCHANGED <<content, pending>>
           ELSE /\ content' = [content EXCEPT ![p] = FixedContent(@)]
                /\ pc' = [pc EXCEPT !["agent"] = "fix_release"]
                /\ UNCHANGED <<sentinel, held, solo, blocked, pending>>
    /\ UNCHANGED <<cont, lockPath, timeout, elapsed, result, config, userActive, ruleContent,
                   rules_hash_cache, project_files_hash_cache, files_to_process,
                   gate_user_active, results, updated, existing_files, files_to_add,
                   ledger, cycles>>
    /\ UNCHANGED <<envEvents, extVars>>
    /\ UNCHANGED auxVars

\* `except Exception as e: ... self.release_file_lock(file_path)`
ExceptRelease(s) == ReleasedSentinel(s)

\* update_file_compliance: the except clause of the outer try releases the
\* lock once more and returns False
FixExcept ==
    /\ pc["agent"] = "fix_except"
    /\ LET p == lockPath["agent"]
       IN  /\ sentinel' = [sentinel EXCEPT ![p] = ExceptRelease(@)]
           /\ solo' = Contended("agent", p)
           /\ blocked' = Unblocked(p)
           /\ pending' = pending \ {p}
    /\ pc' = [pc EXCEPT !["agent"] = "fix"]
    /\ UNCHANGED <<held, cont, lockPath, timeout, elapsed, result, envVars, rules_hash_cache,
                   project_files_hash_cache, files_to_process, gate_user_active, results,
                   updated, existing_files, files_to_add, ledger, cycles>>
    /\ UNCHANGED <<envEvents, extVars>>
    /\ UNCHANGED auxVars

\* update_file_compliance: the finally block releases, True is returned;
\* process_files_for_compliance counts the file and stores its new hash
FixRelease ==
    /\ pc["agent"] = "fix_release"
    /\ LET p == lockPath["agent"]
       IN  /\ sentinel' = [sentinel EXCEPT ![p] = ReleasedSentinel(@)]
           /\ held' = [held EXCEPT !["agent"][p] = "none"]
           /\ solo' = Contended("agent", p)
           /\ blocked' = Unblocked(p)
           /\ updated' = updated \cup {p}
           /\ project_files_hash_cache' =
                  [project_files_hash_cache EXCEPT ![p] =
                      IF FileHash(p) # NoneHash THEN FileHash(p) ELSE @]
           /\ pending' = pending \ {p}
    /\ pc' = [pc EXCEPT !["agent"] = "fix"]
    /\ UNCHANGED <<cont, lockPath, timeout, elapsed, result, envVars, rules_hash_cache,
                   files_to_process, results, existing_files, files_to_add, ledger, cycles>>
    /\ UNCHANGED <<gate_user_active, envEvents, extVars>>
    /\ UNCHANGED auxVars

\* a cycle that hands its files to add_files_to_todo only when no file at
\* all was updated
FilesForTodoNoneUpdated == IF updated = {} THEN files_to_process ELSE {}

\* `if total_updated < total_checked`: the files handed to add_files_to_todo
FilesForTodo ==
    IF Cardinality(updated) < Cardinality(files_to_process) THEN files_to_process ELSE {}

\* the end of process_files_for_compliance; add_files_to_todo reads the
\* ledger's paths
FixDone ==
    /\ pc["agent"] = "fix"
    /\ pending = {}
    /\ IF FilesForTodo # {}
       THEN /\ pc' = [pc EXCEPT !["agent"] = "todo"]
            /\ pending' = FilesForTodo
            /\ existing_files' = LedgerPaths(ledger)
            /\ UNCHANGED <<files_to_process, gate_user_active, results, updated, files_to_add,
                           audit_log, loop>>
       ELSE EndCycle
    /\ UNCHANGED <<sentinel, held, cont, lockPath, timeout, elapsed, result, solo, blocked, envVars,
                   rules_hash_cache, project_files_hash_cache, ledger, cycles>>
    /\ UNCHANGED <<envEvents, unreadable, modeSource, running>>
    /\ UNCHANGED auxVars

\* add_files_to_todo, one file
TodoFile ==
    /\ pc["agent"] = "todo"
    /\ pending # {}
    /\ LET p == NextFile(pending)
           c == check_path_conflicts(Mode, SentinelOf(p), userActive)
       IN  /\ audit_log' = IF ~InLedger(p, existing_files) /\ c.conflict
                            THEN LoggedAtEntry(audit_log, p, Mode, c.reason)
                            ELSE audit_log
           /\ IF ~InLedger(p, existing_files) /\ c.conflict /\ ResolverAcquires(Mode)
              THEN /\ EnterAcquire("agent", p, DefaultTimeout, "todo_acq")
                   /\ UNCHANGED <<pending, files_to_add>>
              ELSE /\ files_to_add' =
                           IF \/ InLedger(p, existing_files)
                              \/ c.conflict /\ IsSkip(resolve_path_conflict(Mode, FALSE))
                           THEN files_to_add
                           ELSE Append(files_to_add, DataLine(p, Priority(Mode), IsoTime(cycles)))
                   /\ pending' = pending \ {p}
                   /\ UNCHANGED <<pc, cont, lockPath, timeout, elapsed, solo, blocked>>
    /\ UNCHANGED <<sentinel, held, result, envVars, rules_hash_cache, project_files_hash_cache,
                   files_to_process, results, updated, existing_files, ledger, cycles>>
    /\ UNCHANGED <<gate_user_active, envEvents, unreadable, modeSource, running, loop>>
    /\ UNCHANGED auxVars

\* add_files_to_todo: the resolver's acquire_file_lock has returned
TodoAcquired ==
    /\ pc["agent"] = "todo_acq"
    /\ LET p == lockPath["agent"]
       IN  /\ audit_log' = LoggedAtReturn(audit_log, p, Mode, "locked", result["agent"])
           /\ files_to_add' =
                   IF IsSkip(resolve_path_conflict(Mode, result["agent"]))
                   THEN files_to_add
                   ELSE Append(files_to_add, DataLine(p, Priority(Mode), IsoTime(cycles)))
           /\ pending' = pending \ {p}
    /\ pc' = [pc EXCEPT !["agent"] = "todo"]
    /\ result' = [result EXCEPT !["agent"] = FALSE]
    /\ solo' = [solo EXCEPT !["agent"] = FALSE]
    /\ blocked' = [blocked EXCEPT !["agent"] = FALSE]
    /\ UNCHANGED <<sentinel, held, cont, lockPath, timeout, elapsed, envVars, rules_hash_cache,
                   project_files_hash_cache, files_to_process, results, updated,
                   existing_files, ledger, cycles>>
    /\ UNCHANGED <<gate_user_active, envEvents, unreadable, modeSource, running, loop>>
    /\ UNCHANGED auxVars

\* add_files_to_todo: the append to the ledger; the cycle ends
TodoDone ==
    /\ pc["agent"] = "todo"
    /\ pending = {}
    /\ ledger' = AppendToLedger(ledger, files_to_add)
    /\ EndCycle
    /\ UNCHANGED <<sentinel, held, cont, lockPath, timeout, elapsed, result, solo, blocked, envVars,
                   rules_hash_cache, project_files_hash_cache, cycles>>
    /\ UNCHANGED <<envEvents, unreadable, modeSource, running>>
    /\ UNCHANGED auxVars

\* TodoListProcessor.__init__
TodoInit ==
    /\ tpc = "idle"
    /\ read_lines = <<>>
    /\ comment_lines = <<>>
    /\ todo_entries = <<>>

\* no call of GlobalRulesManager yet, over an empty rules_dir
NoCall == [op |-> "none", arg |-> "", result |-> FALSE, turn |-> FALSE]

GrmIdle ==
    /\ status_files = {}
    /\ rules_file = "none"
    /\ rules_backup = "none"
    /\ grm_call = NoCall

\* no call of load_config yet, no configuration file
LoadIdle ==
    /\ cfg_file = "missing"
    /\ lc_class = "AutoSyncManager"
    /\ lc_depth = 0
    /\ lc_result = "none"

\* the tools around the monitor that are not in use
ToolsIdle == GrmIdle /\ LoadIdle

\* the tools around the monitor as constructed; the process has not exited
AuxInit == TodoInit /\ exit_code = <<>>

MonitorInit ==
    /\ config \in Configs
    /\ userActive = FALSE
    /\ content \in [Paths -> Contents]
    /\ ruleContent = "r1"
    /\ rules_hash_cache = NoHash
    /\ project_files_hash_cache = [p \in Files |-> NoHash]
    /\ files_to_process = {}
    /\ gate_user_active = FALSE
    /\ pending = {}
    /\ results = [p \in Files |-> NoResult]
    /\ updated = {}
    /\ existing_files = {}
    /\ files_to_add = <<>>
    /\ ledger = <<>>
    /\ cycles = 0
    /\ envEvents = 0
    /\ unreadable = {}
    /\ modeSource = config
    /\ audit_log = <<>>
    /\ running = FALSE
    /\ loop = "direct"
    /\ AuxInit

----------------------------------------------------------------------------
(* The lock manager used by two independent callers *)

\* a sentinel left in the lock directory by a holder that is gone
Leftover == SentinelFile("other", TRUE, TRUE)

LockInit ==
    /\ sentinel \in [Paths -> {NoFile, Leftover}]
    /\ \A p \in Paths \ LockPaths : sentinel[p] = NoFile
    /\ held = [c \in Callers |-> [p \in Paths |-> "none"]]
    /\ pc = [c \in Callers |-> "idle"]
    /\ cont = [c \in Callers |-> "returned"]
    /\ lockPath = [c \in Callers |-> "a.py"]
    /\ timeout = [c \in Callers |-> DefaultTimeout]
    /\ elapsed = [c \in Callers |-> 0]
    /\ result = [c \in Callers |-> FALSE]
    /\ solo = [c \in Callers |-> FALSE]
    /\ blocked = [c \in Callers |-> FALSE]

\* the independent callers' calls in SpecLock
LockCall ==
    /\ \E c \in Callers, p \in LockPaths, t \in Timeouts : CallAcquire(c, p, t)
    /\ UNCHANGED <<monVars, envEvents, extVars>>
    /\ UNCHANGED auxVars

LockRelease ==
    /\ \E c \in Callers, p \in LockPaths : CallRelease(c, p)
    /\ UNCHANGED <<monVars, envEvents, extVars>>
    /\ UNCHANGED auxVars

LockExpire ==
    /\ \E p \in Paths : Expire(p)
    /\ UNCHANGED <<monVars, envEvents, extVars>>
    /\ UNCHANGED auxVars

LockHoldExpire ==
    /\ \E c \in Callers, p \in Paths : HoldExpire(c, p)
    /\ UNCHANGED <<monVars, envEvents, extVars>>
    /\ UNCHANGED auxVars

LockNext ==
    \/ LockCall
    \/ LockRelease
    \/ LockExpire
    \/ LockHoldExpire
    \/ \E c \in Callers : CallReturned(c)
    \/ \E c \in Callers : AcqTimeout(c)
    \/ \E c \in Callers : AcqCreate(c)
    \/ \E c \in Callers : AcqExists(c)
    \/ \E c \in Callers : AcqWrite(c)
    \/ \E c \in Callers : AcqCheck(c)
    \/ \E c \in Callers : AcqUnlink(c)
    \/ \E c \in Callers : AcqSleep(c)
    \/ \E c \in Callers : AcqSleepTick(c)

\* the monitor stays as constructed
LockSpecInit ==
    /\ LockInit
    /\ MonitorInit
    /\ readonly = {} /\ ToolsIdle
    /\ config = "devP"
    /\ content = [p \in Paths |-> "ok"]

SpecLock == LockSpecInit /\ [][LockNext]_vars

----------------------------------------------------------------------------
(* Claims about the lock manager, checked under SpecLock *)

\* C1: for any path, at most one of two independent callers holds a live
\* lock on it (its acquire_file_lock returned True less than the TTL ago
\* and it has not released since), in every reachable state.
C1_MutualExclusion ==
    \A p \in Paths : ~(held["agent"][p] = "live" /\ held["other"][p] = "live")

\* a call with the default timeout that found a stale sentinel and has had
\* the lock of its path to itself returns in this step
SoloReturn(c) ==
    /\ InAcquire(c)
    /\ pc'[c] = "returned"
    /\ solo[c]
    /\ timeout[c] = DefaultTimeout

\* C2: a call of acquire_file_lock with the default timeout that finds a
\* stale sentinel for its path, and during which no other caller uses the
\* lock of that path, returns True, and at its return the path's sentinel
\* is a fresh one written by this caller (the stale one is gone).
C2_StaleSentinelReplaced ==
    [][\A c \in Callers :
          SoloReturn(c) =>
              /\ result'[c]
              /\ held'[c][lockPath[c]] = "live"
              /\ sentinel'[lockPath[c]] = SentinelFile(c, TRUE, FALSE)]_vars

\* such a call has returned True
C2_Witness ==
    \E c \in Callers :
        /\ pc[c] = "returned"
        /\ solo[c]
        /\ timeout[c] = DefaultTimeout
        /\ result[c]
        /\ sentinel[lockPath[c]] = SentinelFile(c, TRUE, FALSE)

\* the steps of acquire_file_lock called by c
AcqStep(c) ==
    \/ AcqTimeout(c) \/ AcqCreate(c) \/ AcqExists(c) \/ AcqWrite(c)
    \/ AcqCheck(c) \/ AcqUnlink(c) \/ AcqSleep(c) \/ AcqSleepTick(c)

\* the thread of a running call keeps running, and of the sleeps of 0.1 s
\* of a call that goes on sleeping some reach the next whole second
SpecLockFair ==
    /\ SpecLock
    /\ \A c \in Callers : WF_vars(AcqStep(c)) /\ SF_vars(AcqSleepTick(c))

\* acquire_file_lock called by c returns in this step
AcqReturn(c) == InAcquire(c) /\ ~InAcquire(c)'

\* a try (and so every retry) is made only before the timeout; a call that
\* has seen the sentinel present and young all along returns False at the
\* timeout and leaves the sentinel as it is
RetryDiscipline ==
    \A c \in Callers :
        /\ pc[c] = "acq_try" /\ pc'[c] \in {"acq_write", "acq_check"}
               => elapsed[c] < timeout[c]
        /\ AcqReturn(c) /\ blocked[c]
               => /\ ~result'[c]
                  /\ elapsed[c] >= timeout[c]
                  /\ sentinel[lockPath[c]].exists
                  /\ sentinel'[lockPath[c]] = sentinel[lockPath[c]]

\* C17: every call acquire_file_lock(P, timeout) terminates: it retries
\* with a short sleep only while the elapsed time is below the timeout,
\* and if P's sentinel stays present and younger than the TTL for the whole
\* timeout the call returns False, leaving that sentinel in place.
C17_AcquireTerminates ==
    /\ [][RetryDiscipline]_vars
    /\ \A c \in Callers : InAcquire(c) ~> ~InAcquire(c)

\* a call with a timeout above 0 has returned False after the sentinel of
\* its path stayed present and young, and the sentinel is still there
C17_Witness ==
    \E c \in Callers :
        /\ pc[c] = "returned"
        /\ blocked[c]
        /\ timeout[c] > 0
        /\ ~result[c]
        /\ sentinel[lockPath[c]].exists
        /\ ~sentinel[lockPath[c]].stale

----------------------------------------------------------------------------
(* The monitor, the user and an independent caller of the lock manager *)

Init == LockInit /\ MonitorInit /\ readonly = {} /\ ToolsIdle

\* the events of the environment, at most MaxEnvEvents of them in a run
EnvUserTouch ==
    /\ envEvents < MaxEnvEvents
    /\ envEvents' = envEvents + 1
    /\ UserTouch
    /\ UNCHANGED auxVars

EnvUserIdle ==
    /\ envEvents < MaxEnvEvents
    /\ envEvents' = envEvents + 1
    /\ UserIdle
    /\ UNCHANGED auxVars

EnvHumanEdit ==
    /\ envEvents < MaxEnvEvents
    /\ envEvents' = envEvents + 1
    /\ \E p \in Paths : HumanEdit(p)
    /\ UNCHANGED auxVars

EnvRuleEdit ==
    /\ envEvents < MaxEnvEvents
    /\ envEvents' = envEvents + 1
    /\ RuleEdit
    /\ UNCHANGED auxVars

EnvOtherAcquire ==
    /\ envEvents < MaxEnvEvents
    /\ envEvents' = envEvents + 1
    /\ \E p \in LockPaths : CallAcquire("other", p, DefaultTimeout)
    /\ UNCHANGED <<monVars, extVars>>
    /\ UNCHANGED auxVars

EnvOtherRelease ==
    /\ envEvents < MaxEnvEvents
    /\ envEvents' = envEvents + 1
    /\ \E p \in LockPaths : CallRelease("other", p)
    /\ UNCHANGED <<monVars, extVars>>
    /\ UNCHANGED auxVars

EnvExpire ==
    /\ envEvents < MaxEnvEvents
    /\ envEvents' = envEvents + 1
    /\ \E p \in Paths : Expire(p)
    /\ UNCHANGED <<monVars, extVars>>
    /\ UNCHANGED auxVars

Next ==
    \/ CycleStart
    \/ CheckFile
    \/ CheckAcquired
    \/ CheckDone
    \/ FixFile
    \/ FixAcquired
    \/ FixWrite
    \/ FixRelease
    \/ FixDone
    \/ TodoFile
    \/ TodoAcquired
    \/ TodoDone
    \/ EnvUserTouch
    \/ EnvUserIdle
    \/ EnvHumanEdit
    \/ EnvRuleEdit
    \/ EnvOtherAcquire
    \/ EnvOtherRelease
    \/ EnvExpire
    \/ CallReturned("other")
    \/ \E c \in Callers : AcqTimeout(c)
    \/ \E c \in Callers : AcqCreate(c)
    \/ \E c \in Callers : AcqExists(c)
    \/ \E c \in Callers : AcqWrite(c)
    \/ \E c \in Callers : AcqCheck(c)
    \/ \E c \in Callers : AcqUnlink(c)
    \/ \E c \in Callers : AcqSleep(c)
    \/ \E c \in Callers : AcqSleepTick(c)

Spec == Init /\ [][Next]_vars

\* the monitor over a tree in which the files of HidePaths are read-only:
\* their update raises PermissionError at open(file_path, 'w')
FixInit == LockInit /\ MonitorInit /\ readonly = HidePaths /\ ToolsIdle

FixNext ==
    \/ CycleStart
    \/ CheckFile
    \/ CheckAcquired
    \/ CheckDone
    \/ FixFile
    \/ FixAcquired
    \/ FixWrite
    \/ FixExcept
    \/ FixRelease
    \/ FixDone
    \/ TodoFile
    \/ TodoAcquired
    \/ TodoDone
    \/ EnvUserTouch
    \/ EnvUserIdle
    \/ EnvHumanEdit
    \/ EnvRuleEdit
    \/ EnvOtherAcquire
    \/ EnvOtherRelease
    \/ EnvExpire
    \/ CallReturned("other")
    \/ \E c \in Callers : AcqTimeout(c)
    \/ \E c \in Callers : AcqCreate(c)
    \/ \E c \in Callers : AcqExists(c)
    \/ \E c \in Callers : AcqWrite(c)
    \/ \E c \in Callers : AcqCheck(c)
    \/ \E c \in Callers : AcqUnlink(c)
    \/ \E c \in Callers : AcqSleep(c)
    \/ \E c \in Callers : AcqSleepTick(c)

SpecFix == FixInit /\ [][FixNext]_vars

----------------------------------------------------------------------------
(* start_monitoring, stop_monitoring and the files and settings that change
   under a running monitor *)

\* start_monitoring up to its first cycle: self.running = True, then both
\* caches take the hash of every file that can be hashed
StartMonitoring ==
    /\ loop = "new"
    /\ running' = TRUE
    /\ rules_hash_cache' = IF RuleHash # NoneHash THEN RuleHash ELSE rules_hash_cache
    /\ project_files_hash_cache' =
           [f \in Files |->
               IF f \in scan_project_files /\ FileHash(f) # NoneHash
               THEN FileHash(f) ELSE project_files_hash_cache[f]]
    /\ loop' = "cycle"
    /\ UNCHANGED <<lockVars, envVars, files_to_process, gate_user_active, pending, results,
                   updated, existing_files, files_to_add, ledger, cycles, envEvents,
                   unreadable, modeSource, audit_log>>
    /\ UNCHANGED auxVars

\* a loop that ends as soon as a cycle has ended
LoopGoesOnNever(r) == FALSE

\* `while self.running`
LoopGoesOn(r) == r

\* the test of the while loop, made after a cycle has returned
LoopTest ==
    /\ loop = "test"
    /\ loop' = IF LoopGoesOn(running) THEN "sleep" ELSE "exited"
    /\ UNCHANGED <<lockVars, monVars, envEvents, unreadable, modeSource, audit_log, running>>
    /\ UNCHANGED auxVars

\* time.sleep(self.interval) returns and run_monitor_cycle is called
LoopWake ==
    /\ loop = "sleep"
    /\ loop' = "cycle"
    /\ UNCHANGED <<lockVars, monVars, envEvents, unreadable, modeSource, audit_log, running>>
    /\ UNCHANGED auxVars

\* stop_monitoring, called on a monitor that start_monitoring has started
StopMonitoring ==
    /\ running
    /\ running' = FALSE
    /\ UNCHANGED <<lockVars, monVars, envEvents, unreadable, modeSource, audit_log, loop>>
    /\ UNCHANGED auxVars

\* a file can no longer be read (its permissions change; the rule file may
\* also be moved away)
Hide(f) ==
    /\ f \notin unreadable
    /\ unreadable' = unreadable \cup {f}
    /\ UNCHANGED <<lockVars, monVars, modeSource, audit_log, running, loop>>

\* the file can be read again, its content as it was
Restore(f) ==
    /\ f \in unreadable
    /\ unreadable' = unreadable \ {f}
    /\ UNCHANGED <<lockVars, monVars, modeSource, audit_log, running, loop>>

\* PG_ProjectMod is edited in rules/project_vars.txt between two cycles of
\* the running monitor; nothing in the monitor loads the file again
ModeEdit(m) ==
    /\ loop \in {"test", "sleep"}
    /\ m # modeSource
    /\ modeSource' = m
    /\ UNCHANGED <<lockVars, monVars, unreadable, audit_log, running, loop>>

\* the events around a started monitor, at most MaxMonEvents in a run
MonUserTouch ==
    /\ envEvents < MaxMonEvents
    /\ envEvents' = envEvents + 1
    /\ UserTouch
    /\ UNCHANGED auxVars

MonHumanEdit ==
    /\ envEvents < MaxMonEvents
    /\ envEvents' = envEvents + 1
    /\ \E p \in Paths : HumanEdit(p)
    /\ UNCHANGED auxVars

MonRuleEdit ==
    /\ envEvents < MaxMonEvents
    /\ envEvents' = envEvents + 1
    /\ RuleEdit
    /\ UNCHANGED auxVars

MonHide ==
    /\ envEvents < MaxMonEvents
    /\ envEvents' = envEvents + 1
    /\ \E f \in HidePaths \cup {RuleFile} : Hide(f)
    /\ UNCHANGED auxVars

MonRestore ==
    /\ envEvents < MaxMonEvents
    /\ envEvents' = envEvents + 1
    /\ \E f \in HidePaths \cup {RuleFile} : Restore(f)
    /\ UNCHANGED auxVars

MonModeEdit ==
    /\ envEvents < MaxMonEvents
    /\ envEvents' = envEvents + 1
    /\ \E m \in Configs : ModeEdit(m)
    /\ UNCHANGED auxVars

\* the monitor is constructed, start_monitoring not yet called; no sentinel
\* is left in the lock directory
MonInit ==
    /\ LockInit
    /\ \A p \in Paths : sentinel[p] = NoFile
    /\ config \in Configs
    /\ userActive \in BOOLEAN
    /\ content \in [Paths -> Contents]
    /\ ruleContent = "r1"
    /\ rules_hash_cache = NoHash
    /\ project_files_hash_cache = [p \in Files |-> NoHash]
    /\ files_to_process = {}
    /\ gate_user_active = FALSE
    /\ pending = {}
    /\ results = [p \in Files |-> NoResult]
    /\ updated = {}
    /\ existing_files = {}
    /\ files_to_add = <<>>
    /\ ledger = <<>>
    /\ cycles = 0
    /\ envEvents = 0
    /\ unreadable = {}
    /\ modeSource = config
    /\ audit_log = <<>>
    /\ running = FALSE
    /\ loop = "new"
    /\ AuxInit
    /\ readonly = {} /\ ToolsIdle

\* without a sentinel of another owner the resolver never calls
\* acquire_file_lock and update_file_compliance acquires at its first try
MonNext ==
    \/ StartMonitoring
    \/ LoopTest
    \/ LoopWake
    \/ StopMonitoring
    \/ CycleStart
    \/ CheckFile
    \/ CheckDone
    \/ FixFile
    \/ FixAcquired
    \/ FixWrite
    \/ FixExcept
    \/ FixRelease
    \/ FixDone
    \/ TodoFile
    \/ TodoDone
    \/ AcqCreate("agent")
    \/ AcqWrite("agent")
    \/ MonUserTouch
    \/ MonHumanEdit
    \/ MonRuleEdit
    \/ MonHide
    \/ MonRestore
    \/ MonModeEdit

SpecMon == MonInit /\ [][MonNext]_vars

----------------------------------------------------------------------------
(* Claims about the monitor cycle, checked under Spec *)

\* the step in which run_monitor_cycle, with a candidate set that is not
\* empty, evaluates should_execute_evolution
GateStep ==
    /\ pc["agent"] = "idle"
    /\ cycles' = cycles + 1
    /\ FilesToProcess # {}

\* the gate let the cycle go on to process_files_for_compliance
GateOpened == pc'["agent"] = "check"

\* the step in which check_project_files_compliance runs
\* check_path_conflicts on file p
CheckStep(p) ==
    /\ pc["agent"] = "check"
    /\ pending # {}
    /\ p = NextFile(pending)
    /\ pending' # pending \/ pc'["agent"] # "check"

\* in that step check_path_conflicts(p) returned a conflict: the file is
\* skipped at once or the resolver has entered acquire_file_lock
ConflictSeen(p) ==
    \/ results'[p].verdict = "skipped"
    \/ pc'["agent"] = "acq_try" /\ lockPath'["agent"] = p

\* check_path_conflicts(p) is called for a path without a written sentinel
\* while the user is active in a mode that is not devP: the conflict it
\* reports is one of user activity
UserActivityConflict(p) ==
    /\ CheckStep(p)
    /\ Mode # "devP"
    /\ userActive
    /\ ~(sentinel[p].exists /\ sentinel[p].written)

UnknownOrMissingAsProD ==
    config \in {"none", "other"} =>
        /\ GateStep => (GateOpened <=> ~userActive)
        /\ \A p \in Paths :
              CheckStep(p) =>
                  (ConflictSeen(p) <=>
                      (sentinel[p].exists /\ sentinel[p].written) \/ userActive)

\* C4 as stated: with a missing or unparseable mode configuration, or a
\* mode name other than devP and proD, the gate opens exactly when the user
\* is inactive and the per-file check reports a conflict exactly when the
\* path is locked or the user is active, as under proD.
C4_UnknownModeAsProD == [][UnknownOrMissingAsProD]_vars

\* a step decides as under proD for an unknown mode name and as under devP
\* for a missing configuration
UnknownAsProDMissingAsDevP ==
    /\ config = "other" =>
         /\ GateStep => (GateOpened <=> ~userActive)
         /\ \A p \in Paths :
               CheckStep(p) =>
                   (ConflictSeen(p) <=>
                       (sentinel[p].exists /\ sentinel[p].written) \/ userActive)
    /\ config = "none" =>
         /\ GateStep => GateOpened
         /\ \A p \in Paths :
               CheckStep(p) =>
                   (ConflictSeen(p) <=>
                       (sentinel[p].exists /\ sentinel[p].written))

\* C4: with a mode name other than devP and proD the gate and the per-file
\* check decide as under proD; with a missing or unparseable configuration
\* the mode is devP: the gate is open whatever the user does and the
\* per-file check reports a conflict exactly when the path is locked.
C4_UnknownModeAsProD_MissingAsDevP == [][UnknownAsProDMissingAsDevP]_vars

\* with no mode configuration the gate has opened while the user was active
C4_Witness ==
    /\ config = "none"
    /\ gate_user_active
    /\ pc["agent"] = "check"
    /\ files_to_process # {}

\* a step of the gate or of the per-file check follows the mode policy
PolicyStep ==
    /\ GateStep /\ Mode = "devP" => GateOpened
    /\ GateStep /\ Mode = "proD" => (GateOpened <=> ~userActive)
    /\ \A p \in Paths :
          CheckStep(p) /\ ~sentinel[p].exists =>
              /\ Mode = "devP" => ~ConflictSeen(p)
              /\ Mode = "proD" => (ConflictSeen(p) <=> userActive)


\* C5: the gate and, for a path without a sentinel, the per-file check
\* depend on the mode and the user's activity only: under devP the gate is
\* open and there is no conflict; under proD the gate is open exactly when
\* the user is inactive and there is a conflict exactly when the user is
\* active.
C5_ModePolicy == [][PolicyStep]_vars

\* under proD the gate opened with the user inactive, and an unlocked file
\* was then found in conflict with the user's activity
C5_Witness ==
    /\ Mode = "proD"
    /\ pc["agent"] = "check"
    /\ ~gate_user_active
    /\ \E p \in Paths :
          /\ ~sentinel[p].exists
          /\ results[p] = SkippedResult("proD user activity")

\* C6: whenever a sentinel exists for a path, check_path_conflicts reports
\* a conflict for it, in every mode and whatever the user's activity and
\* the sentinel's content.
C6_SentinelIsConflict ==
    [][\A p \in Paths :
          CheckStep(p) /\ sentinel[p].exists => ConflictSeen(p)]_vars

\* a step of the agent (no event of the environment) changes a project file
AgentWrites == content' # content /\ envEvents' = envEvents

\* update_file_compliance finds that acquire_file_lock returned False
AcquireFailed ==
    /\ pc["agent"] = "fix_acq"
    /\ pc'["agent"] # "fix_acq"
    /\ ~result["agent"]

\* a step keeps the write discipline of update_file_compliance
WriteDiscipline ==
    /\ AgentWrites =>
         /\ pc["agent"] = "fix_write"
         /\ held["agent"][lockPath["agent"]] # "none"
         /\ \A p \in Paths \ {lockPath["agent"]} : content'[p] = content[p]
    /\ AcquireFailed =>
         /\ content' = content
         /\ pc'["agent"] = "fix"
         /\ updated' = updated
         /\ lockPath["agent"] \notin updated'


\* C7: the agent writes a project file only in update_file_compliance,
\* between a successful acquire_file_lock of that file and its release;
\* when the acquisition fails the file's content is unchanged and the
\* update is not counted (False is returned).
C7_WriteUnderLock == [][WriteDiscipline]_vars

\* the agent has rewritten a file found not compliant, holding its lock
C7_Witness ==
    /\ pc["agent"] = "fix_release"
    /\ held["agent"][lockPath["agent"]] # "none"
    /\ results[lockPath["agent"]].verdict = "fixable"
    /\ content[lockPath["agent"]] = FixedContent("bad")

\* C8: when no monitor cycle is running the agent holds no lock and no
\* sentinel created by the agent exists.
C8_NoLockAfterCycle ==
    pc["agent"] = "idle" =>
        \A p \in Paths :
            /\ held["agent"][p] = "none"
            /\ ~(sentinel[p].exists /\ sentinel[p].owner = "agent")

\* line is a data line written for path p
IsDataLineOf(line, p) ==
    /\ Len(line) = Len(PathString(p)) + 4
    /\ SubSeq(line, 1, Len(PathString(p))) = PathString(p)

\* the data lines of the ledger written for path p
DataLinesOf(p) == {i \in 1..Len(ledger) : IsDataLineOf(ledger[i], p)}

\* add_files_to_todo returns
TodoReturn == pc["agent"] = "todo" /\ pc'["agent"] = "idle"

\* C9: the ledger holds at most one data line for a path, whatever calls of
\* add_files_to_todo have been made, and a call whose paths all have a data
\* line already leaves the ledger as it is.
C9_LedgerDedup ==
    /\ [](\A p \in Paths : Cardinality(DataLinesOf(p)) <= 1)
    /\ [][TodoReturn /\ (\A p \in files_to_process : DataLinesOf(p) # {})
             => ledger' = ledger]_vars

\* C10: the lines the ledger-update step appends name only candidates that
\* are still not compliant after the pass: never a file the pass fixed,
\* never a file the pass found compliant.
C10_OnlyNonCompliantEnqueued ==
    \A i \in 1..Len(files_to_add) : \A p \in Paths :
        IsDataLineOf(files_to_add[i], p) =>
            /\ p \notin updated
            /\ results[p].verdict # "compliant"

\* the candidate set the claim describes, from what the two scans of the
\* step return
CandidateRule ==
    GateStep /\ GateOpened =>
        files_to_process' = IF ChangedRuleFiles # {}
                            THEN scan_project_files
                            ELSE ChangedProjectFiles

\* C11: when the rule-file scan returns a changed rule file, the candidate
\* set handed to remediation is the full set of project files of the
\* directory scan, whatever the project-file scan returned; when no rule
\* file changed it is exactly the changed project files.
C11_RuleChangeEscalates == [][CandidateRule]_vars

\* a cycle is processing the full directory scan although fewer project
\* files than that were edited since the monitor was constructed
C11_Witness ==
    /\ pc["agent"] = "check"
    /\ files_to_process = scan_project_files
    /\ Cardinality(files_to_process) > envEvents

\* the records appended to path_conflicts.log in this step
Appended == SubSeq(audit_log', Len(audit_log) + 1, Len(audit_log'))

\* the step in which add_files_to_todo decides on file p, which is not in
\* the ledger
TodoStep(p) ==
    /\ pc["agent"] = "todo"
    /\ pending # {}
    /\ p = NextFile(pending)
    /\ ~InLedger(p, existing_files)
    /\ pending' # pending \/ pc'["agent"] # "todo"

\* in that step check_path_conflicts(p) returned a conflict: the file is
\* left out at once or the resolver has entered acquire_file_lock
TodoConflictSeen(p) ==
    \/ pending' # pending /\ files_to_add' = files_to_add
    \/ pc'["agent"] = "acq_try" /\ lockPath'["agent"] = p

\* a decision on file p starts in this step
DecisionStep(p) == CheckStep(p) \/ TodoStep(p)

\* and check_path_conflicts(p) returned a conflict in it
ConflictDecision(p) ==
    \/ CheckStep(p) /\ ConflictSeen(p)
    \/ TodoStep(p) /\ TodoConflictSeen(p)

\* the acquire_file_lock called by the resolver for p has returned and the
\* resolver decides in this step
ResolverReturn(p) ==
    /\ pc["agent"] \in {"check_acq", "todo_acq"}
    /\ lockPath["agent"] = p
    /\ pc'["agent"] \notin {"check_acq", "todo_acq"}

\* C16 as stated: every per-file decision, the one that proceeds without
\* conflict included, appends a record that carries the mode.
EveryDecisionLogged ==
    \A p \in Paths :
        DecisionStep(p) =>
            \E i \in 1..Len(Appended) :
                Appended[i].file = p /\ Appended[i].mode = Mode

C16_EveryDecisionLogged == [][EveryDecisionLogged]_vars

ConflictDecisionsLogged ==
    \A p \in Paths :
        /\ ConflictDecision(p) =>
              /\ Len(Appended) >= 1
              /\ Appended[1].resolution = "pending"
              /\ \A i \in 1..Len(Appended) :
                    Appended[i].file = p /\ Appended[i].mode = Mode
              /\ pc'["agent"] # "acq_try" =>
                    /\ Len(Appended) = 2
                    /\ IsSkip(Appended[2].resolution)
        /\ DecisionStep(p) /\ ~ConflictDecision(p) =>
              Appended = <<>>
        /\ ResolverReturn(p) =>
              /\ Len(Appended) = 1
              /\ Appended[1].file = p
              /\ Appended[1].mode = Mode
              /\ Appended[1].resolution =
                     IF result["agent"] THEN "devP forced with lock" ELSE "no lock, skipped"

\* C16: every per-file decision of the conflict resolver in which a
\* conflict was found appends records to path_conflicts.log: one when the
\* resolving starts and one with the outcome (forced with lock, or
\* skipped), each carrying the mode in force at decision time; a decision
\* that proceeds without conflict appends no record.
C16_ConflictDecisionsLogged == [][ConflictDecisionsLogged]_vars

\* the running cycle has logged a conflict forced with the lock and one
\* skipped
C16_Witness ==
    /\ \E i \in 1..Len(audit_log) : audit_log[i].resolution = "devP forced with lock"
    /\ \E i \in 1..Len(audit_log) : IsSkip(audit_log[i].resolution)

\* C14: the ledger's backing file is never part of a cycle's candidate set,
\* neither when its content changed between scans nor when a rule-file
\* change escalates to all project files: it is never compliance-checked
\* and never enqueued into itself.
C14_LedgerFileNeverCandidate ==
    /\ todo_file_path \notin files_to_process
    /\ results[todo_file_path] = NoResult
    /\ \A i \in 1..Len(files_to_add) : ~IsDataLineOf(files_to_add[i], todo_file_path)
    /\ \A i \in 1..Len(ledger) : ~IsDataLineOf(ledger[i], todo_file_path)

----------------------------------------------------------------------------
(* Claims about the scans and the loop, checked under SpecMon *)

\* run_monitor_cycle runs its two scans in this step
ScanStep == pc["agent"] = "idle" /\ cycles' = cycles + 1

\* what a scan does with a path that is not in its cache
BaselineRule ==
    ScanStep =>
        /\ \A f \in scan_project_files :
              project_files_hash_cache[f] = NoHash =>
                  /\ ChangedRuleFiles = {} => f \notin files_to_process'
                  /\ project_files_hash_cache'[f] =
                         IF f \in unreadable THEN NoHash
                         ELSE calculate_file_hash(FileContent(f))
        /\ rules_hash_cache = NoHash =>
              /\ files_to_process' \subseteq
                     {f \in Files : project_files_hash_cache[f] # NoHash}
              /\ rules_hash_cache' =
                     IF RuleFile \in unreadable THEN NoHash
                     ELSE calculate_file_hash(ruleContent)

\* C12: for both populations, a path absent from the fingerprint cache when
\* it is scanned is never in the changed set that scan returns (so never a
\* candidate because of it, and a rule file never escalates), and its hash,
\* when the file is readable, is stored for later scans to compare against.
C12_UnseenBaselined == [][BaselineRule]_vars

\* a scan has stored the hash of a file it met for the first time (the
\* ledger's file), and a file that could not be read by any scan so far
\* has no entry
C12_Witness ==
    /\ cycles >= 2
    /\ project_files_hash_cache[todo_file_path] \notin {NoHash, NoneHash}
    /\ \E f \in Paths : f \in unreadable /\ project_files_hash_cache[f] = NoHash

\* a scan meets a file that has a fingerprint and cannot be hashed
UnhashableNotReported ==
    ScanStep =>
        /\ \A f \in Paths :
              /\ project_files_hash_cache[f] # NoHash
              /\ FileHash(f) = NoneHash
              /\ ChangedRuleFiles = {}
              => f \notin files_to_process'
        /\ rules_hash_cache # NoHash /\ RuleHash = NoneHash /\ ChangedProjectFiles = {}
              => files_to_process' = {}

\* C13: a file that already has a fingerprint but cannot be hashed during a
\* scan is not reported as changed by that scan (it is no candidate, and
\* a rule file in that state does not escalate).
C13_UnhashableNotChanged == [][UnhashableNotReported]_vars

\* the mode the gate and the per-file decisions of this step would use if
\* the mode were read from the mode source now
SourceMode == get_project_mode(modeSource)

DecisionsUseSourceMode ==
    /\ GateStep => (GateOpened <=> should_execute_evolution(SourceMode, userActive))
    /\ \A p \in Paths :
          CheckStep(p) =>
              (ConflictSeen(p) <=>
                  check_path_conflicts(SourceMode, SentinelOf(p), userActive).conflict)

\* C15: the mode is read again from the mode source every cycle: after
\* PG_ProjectMod changed between two cycles of a running monitor, the gate
\* and every per-file decision of the next cycle use the new mode.
C15_ModeRereadEachCycle == [][DecisionsUseSourceMode]_vars

\* stop_monitoring has been called on the started monitor
StopRequested == ~running /\ loop \in {"cycle", "test", "sleep", "exited"}

\* C18: no monitor cycle starts after a stop request: at most the cycle
\* already in progress runs to completion.
C18_NoCycleAfterStop == [][StopRequested => cycles' = cycles]_vars

\* a scan meets a project file whose content is the one its fingerprint
\* was taken of
UnchangedNotReported ==
    ScanStep /\ ChangedRuleFiles = {} =>
        \A f \in Paths :
            project_files_hash_cache[f] = calculate_file_hash(content[f])
                => f \notin files_to_process'

\* C19: a project file whose content has not changed since its fingerprint
\* was last committed (by a scan or by the agent after its own fix) is not
\* reported as changed by the next project-file scan.
C19_UnchangedNotReported == [][UnchangedNotReported]_vars

----------------------------------------------------------------------------
(* Claims about the ledger's file, checked under Spec *)

\* the lines add_files_to_todo adds to the ledger in this step
AppendedLines == SubSeq(ledger', Len(ledger) + 1, Len(ledger'))

\* an enqueue keeps the lines there are as a prefix and appends one data
\* line per path it enqueues, after the header if this is the first write
EnqueueAppends ==
    TodoReturn =>
        /\ Len(ledger') >= Len(ledger)
        /\ SubSeq(ledger', 1, Len(ledger)) = ledger
        /\ AppendedLines =
               (IF ledger = <<>> /\ files_to_add # <<>> THEN <<HeaderLine>> ELSE <<>>)
                   \o files_to_add

\* C20: each enqueue only appends: all prior lines remain, unchanged and in
\* order, as a prefix; the appended part holds one data line per newly
\* enqueued path; the header comment line is written only on the first
\* write to the ledger, not again by later enqueues.
C20_AppendOnlyHeaderOnce == [][EnqueueAppends]_vars

----------------------------------------------------------------------------
(* Claims about the fix phase, the gate and the releases, checked under
   Spec *)

\* the resolver has logged, in this cycle, that it forced the lock on p
ForcedThisCycle(p) ==
    \E i \in 1..Len(audit_log) :
        /\ audit_log[i].file = p
        /\ audit_log[i].resolution = "devP forced with lock"

\* the sentinel of p is the one the agent created, younger than the TTL
OwnSentinel(p) ==
    /\ sentinel[p].exists
    /\ sentinel[p].owner = "agent"
    /\ ~sentinel[p].stale

\* C25: when the resolver forced the lock on a path in this cycle and the
\* file was found fixable, the acquire_file_lock of update_file_compliance
\* does not return False while the sentinel in its way is the resolver's
\* own: the fix of the file is not given up for it.
C25_FixAfterForcedLock ==
    \A p \in Paths :
        /\ pc["agent"] = "fix_acq"
        /\ lockPath["agent"] = p
        /\ ForcedThisCycle(p)
        /\ results[p].verdict = "fixable"
        /\ OwnSentinel(p)
        => result["agent"]

\* a later scan would report file f again: its cache entry is not the hash
\* the file has
StillReported(f) == ReportedChanged(project_files_hash_cache'[f], FileHash(f)')

\* the gate is closed on a candidate set made of detected changes: the
\* cycle checks and enqueues nothing, so every detected change has to stay
\* detectable for a later cycle
ClosedGateKeepsChange ==
    GateStep /\ ~GateOpened =>
        \A f \in ChangedProjectFiles :
            StillReported(f) \/ InLedger(f, LedgerPaths(ledger'))

\* C26: a project-file change a scan detects while the gate is closed (a
\* mode other than devP, the user active) is not lost: the file is neither
\* checked nor enqueued in that cycle, so after the cycle the change is
\* still there for a later cycle to detect and process.
C26_DetectedChangeNotLost == [][ClosedGateKeepsChange]_vars

\* a step in which update_file_compliance releases the lock: the finally
\* block after the write or after the exception, or the except clause
FixReleaseStep ==
    /\ pc["agent"] \in {"fix_write", "fix_release", "fix_except"}
    /\ pc'["agent"] \in {"fix", "fix_except"}

\* the sentinel of p was created by the other caller less than 300 s ago
OthersSentinel(p) ==
    /\ sentinel[p].exists
    /\ sentinel[p].owner = "other"
    /\ ~sentinel[p].stale

ReleaseKeepsOthersSentinel ==
    FixReleaseStep =>
        \A p \in Paths : OthersSentinel(p) => sentinel'[p] = sentinel[p]

\* C27: the releases of update_file_compliance never remove a sentinel that
\* another caller created less than the TTL ago: a successful acquisition
\* is followed by one release, also when the fix raises, so the lock another
\* caller acquires right after the agent's release stays in place.
C27_ReleaseKeepsOthersLock == [][ReleaseKeepsOthersSentinel]_vars

----------------------------------------------------------------------------
(* Claims about failures inside a cycle, checked under SpecMon *)

\* check_file_compliance(p) is called (no conflict skipped the file) and
\* raises while it reads the file
CheckRaises(p) == CheckStep(p) /\ ~ConflictSeen(p) /\ p \in unreadable

\* the inner try of update_file_compliance raises on the locked file
FixRaises ==
    /\ pc["agent"] = "fix_write"
    /\ pc'["agent"] # "fix_write"
    /\ lockPath["agent"] \in unreadable \cup readonly

\* update_file_compliance returns False from its except clause
FixReturnsFalse == pc["agent"] = "fix_except" /\ pc'["agent"] # "fix_except"

\* process_files_for_compliance returns to run_monitor_cycle
ProcessReturn == pc["agent"] = "fix" /\ pending = {} /\ pc'["agent"] # "fix"

\* file p was checked or fixed with a failure in this cycle
FailedInCycle(p) ==
    \/ results[p].verdict = "error"
    \/ results[p].verdict = "fixable" /\ p \notin updated

FailureContained ==
    /\ \A p \in Paths :
          CheckRaises(p) =>
              /\ results'[p].verdict = "error"
              /\ pending' = pending \ {p}
              /\ pc'["agent"] = "check"
              /\ \A q \in Paths \ {p} : results'[q] = results[q]
    /\ FixRaises =>
          /\ pc'["agent"] = "fix_except"
          /\ UNCHANGED <<content, updated, pending>>
    /\ FixReturnsFalse =>
          /\ pc'["agent"] = "fix"
          /\ pending' = pending \ {lockPath["agent"]}
          /\ UNCHANGED <<content, updated, results>>
    /\ ProcessReturn =>
          \A p \in files_to_process :
              FailedInCycle(p) => pc'["agent"] = "todo" /\ p \in pending'

\* C22: a check or a fix that raises on one file is contained to that file:
\* the file is recorded as failed and not counted as fixed, the loops go on
\* to the remaining candidates, and at the end of the phase the file is
\* among the files handed to add_files_to_todo.
C22_FailureContained == [][FailureContained]_vars

\* the check of a.py raised, the other candidate was fixed after it, and
\* a.py is among the files handed to add_files_to_todo
C22_Witness ==
    /\ pc["agent"] = "todo"
    /\ results["a.py"].verdict = "error"
    /\ "b|c.py" \in updated
    /\ "a.py" \in pending

----------------------------------------------------------------------------
(* The first cycle of a monitor: run_monitor_cycle called once on a new
   monitor (--once), or start_monitoring on a new monitor *)

\* a new monitor, about to be used in one of the two ways, over any state
\* of the files, the rule file, the mode and the user's activity
FirstInit ==
    /\ LockInit
    /\ \A p \in Paths : sentinel[p] = NoFile
    /\ config \in Configs
    /\ userActive \in BOOLEAN
    /\ content \in [Paths -> Contents]
    /\ ruleContent = "r1"
    /\ rules_hash_cache = NoHash
    /\ project_files_hash_cache = [p \in Files |-> NoHash]
    /\ files_to_process = {}
    /\ gate_user_active = FALSE
    /\ pending = {}
    /\ results = [p \in Files |-> NoResult]
    /\ updated = {}
    /\ existing_files = {}
    /\ files_to_add = <<>>
    /\ ledger = <<>>
    /\ cycles = 0
    /\ envEvents = 0
    /\ unreadable \in SUBSET (HidePaths \cup {RuleFile})
    /\ modeSource = config
    /\ audit_log = <<>>
    /\ running = FALSE
    /\ loop \in {"direct", "new"}
    /\ AuxInit
    /\ readonly = {} /\ ToolsIdle

\* the monitor up to the end of its first cycle; the user may touch the
\* activity file, no file is modified
FirstNext ==
    \/ StartMonitoring
    \/ CycleStart
    \/ MonUserTouch

SpecFirst == FirstInit /\ [][FirstNext]_vars

\* the first cycle of the monitor runs its scans
FirstScan == ScanStep /\ cycles = 0

FirstCycleIdle ==
    FirstScan =>
        /\ files_to_process' = {}
        /\ pc'["agent"] = "idle"
        /\ UNCHANGED <<content, ledger, sentinel, results, updated, files_to_add>>

\* C29: the first cycle of a new monitor (both caches empty, or baselined
\* by start_monitoring with no file modified since) ends with an empty
\* candidate set: it checks, fixes and enqueues no file, whatever the
\* compliance of the files, the mode and the state of the rule file.
C29_FirstCycleEmpty == [][FirstCycleIdle]_vars

\* the first cycle has ended over a file that is not compliant, in devP
C29_Witness ==
    /\ cycles = 1
    /\ content["a.py"] = "bad"
    /\ Mode = "devP"
    /\ files_to_process = {}
    /\ pc["agent"] = "idle"

----------------------------------------------------------------------------
(* main with --once: one run_monitor_cycle on a new monitor, then the
   process ends *)

\* a new monitor in a process started with --once, over any state of the
\* files and of the rule source
OnceInit ==
    /\ LockInit
    /\ \A p \in Paths : sentinel[p] = NoFile
    /\ config \in Configs
    /\ userActive \in BOOLEAN
    /\ content \in [Paths -> Contents]
    /\ ruleContent = "r1"
    /\ rules_hash_cache = NoHash
    /\ project_files_hash_cache = [p \in Files |-> NoHash]
    /\ files_to_process = {}
    /\ gate_user_active = FALSE
    /\ pending = {}
    /\ results = [p \in Files |-> NoResult]
    /\ updated = {}
    /\ existing_files = {}
    /\ files_to_add = <<>>
    /\ ledger = <<>>
    /\ cycles = 0
    /\ envEvents = 0
    /\ unreadable \in SUBSET (HidePaths \cup {RuleFile})
    /\ modeSource = config
    /\ audit_log = <<>>
    /\ running = FALSE
    /\ loop = "direct"
    /\ AuxInit
    /\ readonly = {} /\ ToolsIdle

\* main: monitor.run_monitor_cycle()
OnceCycle ==
    /\ exit_code = <<>>
    /\ cycles = 0
    /\ CycleStart

\* the status of a process whose main returns: main calls no sys.exit and
\* run_monitor_cycle catches every Exception
MainExitStatus == 0

\* main: the finally block calls stop_monitoring, main returns and the
\* interpreter exits
OnceExit ==
    /\ exit_code = <<>>
    /\ cycles = 1
    /\ pc["agent"] = "idle"
    /\ exit_code' = <<MainExitStatus>>
    /\ running' = FALSE
    /\ UNCHANGED <<lockVars, monVars, envEvents, unreadable, modeSource, audit_log, loop>>
    /\ UNCHANGED <<todoVars, readonly, grmVars, loadVars>>

OnceNext ==
    \/ OnceCycle
    \/ OnceExit

SpecOnce == OnceInit /\ [][OnceNext]_vars

\* the infrastructure failure the cycle of a new monitor can meet: the
\* rule source cannot be read (the lock directory and the ledger are not
\* used by a cycle whose candidate set is empty)
InfraFailure == RuleFile \in unreadable

\* C23: in --once mode the process exits with status 0 only if the cycle
\* met no infrastructure failure: when the rule source cannot be read the
\* exit status is not 0.
C23_OnceExitStatus == exit_code = <<0>> => ~InfraFailure

----------------------------------------------------------------------------
(* The consumer of the ledger: TodoListProcessor of process_todo_list.py *)

\* line.split('|'): the pieces between the bars
Parts(line) == SelectSeq(line, LAMBDA x : x # "|")

\* `if len(parts) >= 3`: the entry (parts[0], parts[1], parts[2]) of a
\* data line; a line with fewer parts is dropped with a warning
ParsedEntries(lines) ==
    LET RECURSIVE Go(_)
        Go(i) ==
            IF i > Len(lines) THEN <<>>
            ELSE IF ~IsComment(lines[i]) /\ Len(Parts(lines[i])) >= 3
                 THEN <<SubSeq(Parts(lines[i]), 1, 3)>> \o Go(i + 1)
                 ELSE Go(i + 1)
    IN  Go(1)

\* `line.startswith('#')`: the comment lines, in the order of the file
CommentLines(lines) == SelectSeq(lines, IsComment)

\* TodoListProcessor.check_file_compliance(file_path) on the text of a
\* path: a path that names no file is not compliant, a file that cannot be
\* read is not, a .py file needs its declaration and docstring, the .txt
\* file of the ledger needs a content
ConsumerCompliant(path) ==
    IF path \in Paths THEN path \notin unreadable /\ content[path] = "ok"
    ELSE IF path = todo_file_path THEN ledger # <<>>
    ELSE FALSE

\* process_todo_entries: the entries found not compliant, in order
NonCompliantEntries(entries) ==
    SelectSeq(entries, LAMBDA e : ~ConsumerCompliant(e[1]))

\* f"{file_path}|{priority}|{timestamp}"
EntryLine(e) == <<e[1], "|", e[2], "|", e[3]>>

\* save_todo_file: open(..., 'w') empties the file, the comment lines are
\* written, then `self.comment_lines[-1]` raises IndexError when there are
\* entries and no comment line, and the file stays as it is by then
SavedLedger(comments, entries) ==
    IF entries # <<>> /\ comments = <<>> THEN <<>>
    ELSE comments \o [i \in 1..Len(entries) |-> EntryLine(entries[i])]

\* run: read_todo_file; a missing file ends the run
ConsumerRead ==
    /\ tpc = "idle"
    /\ IF ledger = <<>>
       THEN /\ tpc' = "done"
            /\ UNCHANGED <<read_lines, comment_lines, todo_entries>>
       ELSE /\ tpc' = "read"
            /\ read_lines' = ledger
            /\ comment_lines' = CommentLines(ledger)
            /\ todo_entries' = ParsedEntries(ledger)
    /\ UNCHANGED <<lockVars, monVars, envEvents, extVars, readonly, exit_code, grmVars, loadVars>>

\* run: process_todo_entries
ConsumerProcess ==
    /\ tpc = "read"
    /\ tpc' = "processed"
    /\ todo_entries' = NonCompliantEntries(todo_entries)
    /\ UNCHANGED <<read_lines, comment_lines>>
    /\ UNCHANGED <<lockVars, monVars, envEvents, extVars, readonly, exit_code, grmVars, loadVars>>

\* run: save_todo_file
ConsumerSave ==
    /\ tpc = "processed"
    /\ tpc' = "done"
    /\ ledger' = SavedLedger(comment_lines, todo_entries)
    /\ UNCHANGED <<read_lines, comment_lines, todo_entries>>
    /\ UNCHANGED <<lockVars, envVars, rules_hash_cache, project_files_hash_cache,
                   files_to_process, gate_user_active, pending, results, updated,
                   existing_files, files_to_add, cycles>>
    /\ UNCHANGED <<envEvents, extVars, readonly, exit_code, grmVars, loadVars>>

\* the longest ledger a consumer pass is run on
MaxLedgerLen == 3

\* the lines of a ledger: the header comment and an entry of each file
LedgerLines ==
    {HeaderLine, DataLine("a.py", "LOW", IsoTime(0)), DataLine("b|c.py", "HIGH", IsoTime(1))}

\* the ledgers of at most MaxLedgerLen lines, with or without a comment
LedgerInputs ==
    UNION {[1..n -> LedgerLines] : n \in 0..MaxLedgerLen}

\* a new TodoListProcessor over any ledger and any state of the files; the
\* monitor is not running
ConsumerInit ==
    /\ LockInit
    /\ \A p \in Paths : sentinel[p] = NoFile
    /\ config = "devP"
    /\ userActive = FALSE
    /\ content \in [Paths -> Contents]
    /\ ruleContent = "r1"
    /\ rules_hash_cache = NoHash
    /\ project_files_hash_cache = [p \in Files |-> NoHash]
    /\ files_to_process = {}
    /\ gate_user_active = FALSE
    /\ pending = {}
    /\ results = [p \in Files |-> NoResult]
    /\ updated = {}
    /\ existing_files = {}
    /\ files_to_add = <<>>
    /\ ledger \in LedgerInputs
    /\ cycles = 0
    /\ envEvents = 0
    /\ unreadable = {}
    /\ modeSource = config
    /\ audit_log = <<>>
    /\ running = FALSE
    /\ loop = "direct"
    /\ AuxInit
    /\ readonly = {} /\ ToolsIdle

ConsumerNext ==
    \/ ConsumerRead
    \/ ConsumerProcess
    \/ ConsumerSave

SpecTodo == ConsumerInit /\ [][ConsumerNext]_vars

\* the file whose entry the data line is
FileOfLine(line) == CHOOSE p \in Files : IsDataLineOf(line, p)

\* the data line is the entry of a file that fails the consumer's check
FailingEntry(line) == ~IsComment(line) /\ ~ConsumerCompliant(FileOfLine(line))

IsDataLine(line) == ~IsComment(line)

\* the rewrite that ends a pass keeps the comment lines and exactly the
\* entries of the failing files, each as it was and in the same order
PassKeepsFailing ==
    tpc = "processed" /\ tpc' = "done" =>
        /\ SelectSeq(ledger', IsComment) = SelectSeq(ledger, IsComment)
        /\ SelectSeq(ledger', IsDataLine) = SelectSeq(ledger, FailingEntry)

----------------------------------------------------------------------------
(* The monitor and the consumer at work on the same ledger *)

\* a new monitor and a new consumer; no sentinel is left in the lock
\* directory and no other caller uses the lock manager
LedgerInit == Init /\ \A p \in Paths : sentinel[p] = NoFile

LedgerNext ==
    \/ CycleStart
    \/ CheckFile
    \/ CheckDone
    \/ FixFile
    \/ FixAcquired
    \/ FixWrite
    \/ FixRelease
    \/ FixDone
    \/ TodoFile
    \/ TodoDone
    \/ AcqCreate("agent")
    \/ AcqWrite("agent")
    \/ MonHumanEdit
    \/ MonRuleEdit
    \/ ConsumerRead
    \/ ConsumerProcess
    \/ ConsumerSave

SpecLedger == LedgerInit /\ [][LedgerNext]_vars

\* line is in the sequence of lines
HasLine(lines, line) == \E i \in 1..Len(lines) : lines[i] = line

\* the rewrite that ends a pass keeps every entry that add_files_to_todo
\* appended after the pass had read the ledger
RewriteKeepsAppended ==
    tpc = "processed" /\ tpc' = "done" =>
        \A i \in 1..Len(ledger) :
            IsDataLine(ledger[i]) /\ ~HasLine(read_lines, ledger[i])
                => HasLine(ledger', ledger[i])

----------------------------------------------------------------------------
(* load_config of AutoSyncManager (auto_sync.py) and of RulePuller
   (rule_puller.py) *)

\* a monitor that is constructed and not used
MonitorAtRest ==
    /\ LockInit
    /\ \A p \in Paths : sentinel[p] = NoFile
    /\ MonitorInit
    /\ config = "devP"
    /\ content = [p \in Paths |-> "ok"]
    /\ readonly = {}

LoadClasses == {"AutoSyncManager", "RulePuller"}

\* the configuration file: missing, holding the default configuration or
\* another one as JSON, holding text that is not JSON, or not readable
CfgStates == {"missing", "default", "custom", "corrupt", "unreadable"}

\* open() or json.load() raises on the file
CfgBroken(f) == f \in {"corrupt", "unreadable"}

\* the number of frames at which the interpreter raises RecursionError
\* (sys.getrecursionlimit(), 1000 unless changed)
RecursionLimit == 4

\* the number of changes made to the configuration file by others
MaxCfgEvents == 2

LoadInit ==
    /\ MonitorAtRest
    /\ GrmIdle
    /\ cfg_file \in CfgStates
    /\ lc_class \in LoadClasses
    /\ lc_depth = 0
    /\ lc_result = "none"

\* load_config is called
LoadCall ==
    /\ lc_depth = 0
    /\ lc_result = "none"
    /\ lc_depth' = 1
    /\ UNCHANGED <<cfg_file, lc_class, lc_result>>
    /\ UNCHANGED <<lockVars, monVars, envEvents, extVars, todoVars, readonly, exit_code, grmVars>>

\* the file after `if not self.config_file.exists()`: AutoSyncManager
\* saves the default configuration, RulePuller only returns it
AfterMissing(cls) == IF cls = "AutoSyncManager" THEN "default" ELSE "missing"

\* `if not self.config_file.exists()`: the default configuration
LoadMissing ==
    /\ lc_depth >= 1
    /\ lc_result = "none"
    /\ cfg_file = "missing"
    /\ cfg_file' = AfterMissing(lc_class)
    /\ lc_result' = "default"
    /\ lc_depth' = 0
    /\ UNCHANGED lc_class
    /\ UNCHANGED <<lockVars, monVars, envEvents, extVars, todoVars, readonly, exit_code, grmVars>>

\* `return json.load(f)`: the configuration in the file
LoadParsed ==
    /\ lc_depth >= 1
    /\ lc_result = "none"
    /\ cfg_file \in {"default", "custom"}
    /\ lc_result' = cfg_file
    /\ lc_depth' = 0
    /\ UNCHANGED <<cfg_file, lc_class>>
    /\ UNCHANGED <<lockVars, monVars, envEvents, extVars, todoVars, readonly, exit_code, grmVars>>

\* `except Exception: ... return self.load_config()`: one more frame, or
\* RecursionError out of every frame when the stack is full
OnBroken(depth) ==
    IF depth < RecursionLimit THEN [depth |-> depth + 1, result |-> "none"]
    ELSE [depth |-> 0, result |-> "RecursionError"]

\* the file exists and open() or json.load() raises
LoadBroken ==
    /\ lc_depth >= 1
    /\ lc_result = "none"
    /\ CfgBroken(cfg_file)
    /\ lc_depth' = OnBroken(lc_depth).depth
    /\ lc_result' = OnBroken(lc_depth).result
    /\ UNCHANGED <<cfg_file, lc_class>>
    /\ UNCHANGED <<lockVars, monVars, envEvents, extVars, todoVars, readonly, exit_code, grmVars>>

\* the configuration file is changed by another process or by hand
CfgEdit ==
    /\ envEvents < MaxCfgEvents
    /\ envEvents' = envEvents + 1
    /\ \E f \in CfgStates \ {cfg_file} : cfg_file' = f
    /\ UNCHANGED <<lc_class, lc_depth, lc_result>>
    /\ UNCHANGED <<lockVars, monVars, extVars, todoVars, readonly, exit_code, grmVars>>

LoadNext ==
    \/ LoadCall
    \/ LoadMissing
    \/ LoadParsed
    \/ LoadBroken
    \/ CfgEdit

SpecLoad == LoadInit /\ [][LoadNext]_vars

\* the outermost call of load_config ends
LoadEnds == lc_result = "none" /\ lc_result' # "none"

LoadReturnsDefault ==
    LoadEnds =>
        /\ lc_result' # "RecursionError"
        /\ CfgBroken(cfg_file) => lc_result' = "default"

\* C30: load_config of AutoSyncManager and of RulePuller ends by returning
\* a configuration for every state of the configuration file (it never
\* ends in RecursionError), and what it returns when the file exists but
\* cannot be read or parsed is the default configuration.
C30_LoadConfigReturnsDefault == [][LoadReturnsDefault]_vars

----------------------------------------------------------------------------
(* GlobalRulesManager of rules_manager_updated.py: the status files
   rules.lock, rules.online and rules.offline *)

StatusTypes == {"lock", "online", "offline"}

\* the file types create_status_file is called with
FileTypes == StatusTypes \cup {"other"}

\* a call of the manager with its argument and what it returned; turn
\* changes with every call
Called(op, arg, returned) ==
    [op |-> op, arg |-> arg, result |-> returned, turn |-> ~grm_call.turn]

\* a manager over a rules_dir that holds any of the status files, with or
\* without a local project_rules.md
GrmInit ==
    /\ MonitorAtRest
    /\ LoadIdle
    /\ status_files \in SUBSET StatusTypes
    /\ rules_file \in {"none", "local"}
    /\ rules_backup = "none"
    /\ grm_call = NoCall

\* a manager that lets every mode be created whatever files exist
CreateRefusedNever(files, t) == FALSE

\* `if self.lock_file.exists() and file_type != "lock"`
CreateRefused(files, t) == "lock" \in files /\ t # "lock"

\* create_status_file(file_type): the status files after the call and the
\* value returned
create_status_file(files, t) ==
    IF t \notin StatusTypes THEN [files |-> files, result |-> FALSE]
    ELSE IF CreateRefused(files, t) THEN [files |-> files, result |-> FALSE]
    ELSE [files |-> {t}, result |-> TRUE]

CreateStatusFile ==
    /\ \E t \in FileTypes :
          /\ status_files' = create_status_file(status_files, t).files
          /\ grm_call' = Called("create", t, create_status_file(status_files, t).result)
    /\ UNCHANGED <<rules_file, rules_backup>>
    /\ UNCHANGED <<lockVars, monVars, envEvents, extVars, todoVars, readonly, exit_code, loadVars>>

\* remove_status_files: every status file that exists is unlinked
RemoveStatusFiles ==
    /\ status_files' = {}
    /\ grm_call' = Called("remove", "", TRUE)
    /\ UNCHANGED <<rules_file, rules_backup>>
    /\ UNCHANGED <<lockVars, monVars, envEvents, extVars, todoVars, readonly, exit_code, loadVars>>

\* check_rules_update_permission
check_rules_update_permission(files) == "lock" \notin files

CheckPermission ==
    /\ grm_call' = Called("check", "", check_rules_update_permission(status_files))
    /\ UNCHANGED <<status_files, rules_file, rules_backup>>
    /\ UNCHANGED <<lockVars, monVars, envEvents, extVars, todoVars, readonly, exit_code, loadVars>>

\* update_rules_from_remote: without the permission, outside the online
\* mode, or when get_remote_rules_content returns None, False; else the
\* rules file is renamed to the backup and written anew
UpdateFromRemote ==
    /\ \E fetched \in BOOLEAN :
          IF /\ check_rules_update_permission(status_files)
             /\ "online" \in status_files
             /\ fetched
          THEN /\ rules_backup' = IF rules_file # "none" THEN rules_file ELSE rules_backup
               /\ rules_file' = "remote"
               /\ grm_call' = Called("update", "", TRUE)
          ELSE /\ UNCHANGED <<rules_file, rules_backup>>
               /\ grm_call' = Called("update", "", FALSE)
    /\ UNCHANGED status_files
    /\ UNCHANGED <<lockVars, monVars, envEvents, extVars, todoVars, readonly, exit_code, loadVars>>

\* ensure_local_rules_exists: in the offline mode a missing rules file is
\* fetched and written
EnsureLocalRules ==
    /\ \E fetched \in BOOLEAN :
          IF "offline" \in status_files /\ rules_file = "none"
          THEN /\ rules_file' = IF fetched THEN "remote" ELSE rules_file
               /\ grm_call' = Called("ensure", "", fetched)
          ELSE /\ UNCHANGED rules_file
               /\ grm_call' = Called("ensure", "", TRUE)
    /\ UNCHANGED <<status_files, rules_backup>>
    /\ UNCHANGED <<lockVars, monVars, envEvents, extVars, todoVars, readonly, exit_code, loadVars>>

GrmNext ==
    \/ CreateStatusFile
    \/ RemoveStatusFiles
    \/ CheckPermission
    \/ UpdateFromRemote
    \/ EnsureLocalRules

SpecGrm == GrmInit /\ [][GrmNext]_vars

\* the step is a call of operation op
CallOf(op) == grm_call'.turn # grm_call.turn /\ grm_call'.op = op

LockRespected ==
    /\ "lock" \in status_files =>
          /\ CallOf("create") /\ grm_call'.arg \in {"online", "offline"} =>
                ~grm_call'.result /\ status_files' = status_files
          /\ CallOf("check") => ~grm_call'.result
          /\ CallOf("update") =>
                ~grm_call'.result /\ UNCHANGED <<rules_file, rules_backup>>
          /\ "lock" \notin status_files' => CallOf("remove")
    /\ CallOf("check") /\ grm_call'.result => "lock" \notin status_files

\* C24: while rules.lock exists, create_status_file('online') and
\* create_status_file('offline') return False and leave the status files
\* as they are, check_rules_update_permission returns False and
\* update_rules_from_remote returns False without touching the rules file;
\* the lock goes away, and the permission comes back, only by
\* remove_status_files.
C24_LockRespected == [][LockRespected]_vars

\* under the lock, with rules.online beside it, the switch to the offline
\* mode has been refused
C24_Witness ==
    /\ "lock" \in status_files
    /\ "online" \in status_files
    /\ grm_call.op = "create"
    /\ grm_call.arg = "offline"
    /\ ~grm_call.result

====
